---------------------------- MODULE Spec2Model ----------------------------
(***************************************************************************)
(* Verification model of the MLATS resume analyser.                        *)
(*                                                                         *)
(*   - the skills path of ats_components.py (extract_skills,               *)
(*     find_matching_skills, score_skills)                  : SpecSkills   *)
(*                                                                         *)
(* Texts are abstracted to what the code observes of them: which taxonomy  *)
(* tokens occur as substrings, which word tokens the keyword regex finds.  *)
(* Scores are Python floats in the source; they are modelled as exact      *)
(* rationals [n, d].                                                       *)
(***************************************************************************)
EXTENDS Integers, Sequences, FiniteSets, TLC

VARIABLES
    sim,                \* the embedding model: pairs of tokens whose cosine similarity is > 0.7
    resume_text,        \* the resume handed to the scorer
    job_description,    \* the job description handed to the scorer
    skills_result,      \* score_skills(resume_text, job_description), or NoResult
    resume_b,           \* resume_text with one more skill written into it, or NoText
    skills_result_b,    \* score_skills(resume_b, job_description), or NoResult
    band_matched,       \* len(matched) at line 492
    band_required,      \* len(required_skills) at line 492
    band_score,         \* the score of lines 492-508 for them, or NoResult
    extracted_experience, \* extract_experience(resume_text), or NoResult
    score_result,       \* score_resume(resume_text, job_description), or NoResult
    engine_result,      \* experience and its score by ats_engine_new, or NoResult
    overall_score_int,  \* the integer overall score analyze_resume derives, or NoResult
    overall_score,      \* the argument of classify_resume
    classification,     \* what classify_resume returned for it, or "none"
    ML_AVAILABLE,       \* the import of ats_components succeeded
    processing_tracking_available,  \* the import of processing_tracker succeeded
    requests,           \* the analyze_resume requests: where each stands and what it holds
    resumes,            \* the rows of the resumes table, in insertion order
    active_sessions,    \* processing_tracker.active_sessions
    processing_history, \* processing_tracker.processing_history
    stage_stats,        \* processing_tracker.stage_stats
    six_scores,         \* six section scores between 0 and 100, or NoResult
    weighted_overall,   \* their weighted overall score under each scorer's weights, or NoResult
    bonus_input,        \* what score_resume holds at line 698: the section results and entry counts
    bonus_result,       \* what score_resume returns for them, or NoResult
    resume_skill_list,  \* the resume_skills handed to find_matching_skills
    required_skill_list, \* the required_skills handed to it
    matching,           \* what find_matching_skills returns for them, or NoResult
    matching_reordered, \* what it returns for the resume skills in reverse order, or NoResult
    fallback_matching,  \* what the fallback match_skills returns for them, or NoResult
    verdict_input,      \* the score_result and contact_info handed to save_resume_data
    verdict_row,        \* the row save_resume_data builds for them, or NoResult
    experience_text,    \* a resume with an experience section
    engine_jobs,        \* what _extract_experience of ats_engine_new returns for it, or NoResult
    fallback_jobs,      \* what the fallback _extract_experience returns for it, or NoResult
    education_text,     \* a resume with an education section
    engine_education,   \* what _extract_education of ats_engine_new returns for it, or NoResult
    fallback_education, \* what the fallback _extract_education returns for it, or NoResult
    _models,            \* ModelManager._models: model key -> model
    _model_stats,       \* ModelManager._model_stats: model key -> statistics
    _lock,              \* ModelManager._lock: the thread that holds it, 0 if free
    matcher_model,      \* ats_scorer.semantic_matcher.model of app.py
    load_count,         \* per model key, how many times a model was constructed for it
    callers,            \* the threads that call the model manager: where each stands
    history_before,     \* processing_history when get_recent_sessions is called
    limit,              \* the limit it is called with
    recent_sessions,    \* what it returns, or NoResult
    connected,          \* RedisCache.connected of cache_utils.cache
    use_pickle,         \* the use_pickle argument of the cache_result decorator
    redis_data,         \* the Redis keys: cache key -> serialized value and expiry time
    now,                \* the time, in steps of which ttl is a multiple
    calls_made,         \* how many calls of the decorated function were made
    last_call,          \* the last of them: its argument, what it found, did and returned
    timed_stats,        \* processing_tracker.stage_stats with its times: stage -> statistics
    clock,              \* time.time()
    stage_calls,        \* the threads inside track_stage: where each stands
    recorded            \* per stage, the durations and outcomes recorded so far, in order

textVars == <<sim, resume_text, job_description>>
skillsVars == <<skills_result, resume_b, skills_result_b>>
bandVars == <<band_matched, band_required, band_score>>
scoreVars == <<extracted_experience, score_result, engine_result, overall_score_int>>
classifyVars == <<overall_score, classification>>
trackerVars == <<active_sessions, processing_history, stage_stats>>
appVars == <<ML_AVAILABLE, processing_tracking_available, requests, resumes, trackerVars>>

weightVars == <<six_scores, weighted_overall>>
bonusVars == <<bonus_input, bonus_result>>
matchVars == <<resume_skill_list, required_skill_list, matching, matching_reordered, fallback_matching>>
verdictVars == <<verdict_input, verdict_row>>
parserVars == <<experience_text, engine_jobs, fallback_jobs>>
eduVars == <<education_text, engine_education, fallback_education>>
managerVars == <<_models, _model_stats, _lock, matcher_model, load_count, callers>>
recentVars == <<history_before, limit, recent_sessions>>
cacheVars == <<connected, use_pickle, redis_data, now, calls_made, last_call>>
statsVars == <<timed_stats, clock, stage_calls, recorded>>
moreVars == <<eduVars, managerVars, recentVars, cacheVars, statsVars>>
\* what the actions of SpecEducation, and of SpecModels and SpecManager, leave alone
besideEducation == <<managerVars, recentVars, cacheVars, statsVars>>
besideManager == <<eduVars, recentVars, cacheVars, statsVars>>
besideRecent == <<eduVars, managerVars, cacheVars, statsVars>>
besideCache == <<eduVars, managerVars, recentVars, statsVars>>
besideStats == <<eduVars, managerVars, recentVars, cacheVars>>
pureVars == <<weightVars, bonusVars, matchVars, verdictVars, parserVars, moreVars>>

oldVars ==
    <<textVars, skillsVars, bandVars, scoreVars, classifyVars, appVars, weightVars, bonusVars,
      matchVars, verdictVars, parserVars>>

vars == <<textVars, skillsVars, bandVars, scoreVars, classifyVars, appVars, pureVars>>

(***************************************************************************)
(* Bounds of the model.                                                    *)
(***************************************************************************)
NumFiller == 29         \* taxonomy skills 1..NumFiller: a block a resume mentions as a whole or not at all
NumVarying == 3         \* taxonomy skills after the block, each present or absent on its own
MaxWords == 3           \* longest word list of a job description without taxonomy skills

(***************************************************************************)
(* Exact rational arithmetic for the float computations.                   *)
(***************************************************************************)
Abs(x) == IF x < 0 THEN -x ELSE x

RECURSIVE GCD(_, _)
GCD(a, b) == IF b = 0 THEN a ELSE GCD(b, a % b)

Rat(num, den) ==
    LET g == GCD(Abs(num), Abs(den))
        s == IF den < 0 THEN -1 ELSE 1
    IN  [n |-> (s * num) \div g, d |-> (s * den) \div g]

ToR(i) == [n |-> i, d |-> 1]
RAdd(a, b) == Rat(a.n * b.d + b.n * a.d, a.d * b.d)
RSub(a, b) == Rat(a.n * b.d - b.n * a.d, a.d * b.d)
RMul(a, b) == Rat(a.n * b.n, a.d * b.d)
RLe(a, b) == a.n * b.d <= b.n * a.d
RLt(a, b) == a.n * b.d < b.n * a.d
RGe(a, b) == RLe(b, a)
RMin(a, b) == IF RLe(a, b) THEN a ELSE b

(***************************************************************************)
(* Tokens.  Taxonomy skills are their index in common_skills; the keyword  *)
(* regex of extract_keywords also yields words that are no taxonomy skill. *)
(***************************************************************************)
FillerSkills == 1..NumFiller
VaryingSkills == (NumFiller + 1)..(NumFiller + NumVarying)
Taxonomy == FillerSkills \cup VaryingSkills
StopWord == 2000                    \* a word of common_words ('the', 'and', ...)
KeyWords == {1001, 1002}            \* words that are neither stop words nor taxonomy skills
WordTokens == KeyWords \cup {StopWord}

\* skills as a resume may spell them: 'Python ' and what lower() and strip()
\* make of it
RawPython == 3001                   \* 'Python '
PaddedPython == 3002                \* 'python '
LowerSkill(s) == IF s = RawPython THEN PaddedPython ELSE s
StripSkill(s) == IF s = PaddedPython THEN 1 ELSE s
\* a is a substring of b, for the skills 'java' and 'javascript' and the
\* spellings of 'python'
SubstringOf(a, b) == a = b \/ <<a, b>> \in {<<2, 3>>, <<1, PaddedPython>>}

NoResult == [error |-> "not_run"]
NoText == [absent |-> TRUE]

(***************************************************************************)
(* A text, as the code observes it.                                        *)
(*   lines      : its non-empty lines, each one of LineKinds               *)
(*   filler     : it mentions every skill of FillerSkills, outside any     *)
(*                skills section                                           *)
(*   textSkills : the varying taxonomy skills that are substrings of it    *)
(*   secSkills  : those of them inside the captured skills section         *)
(*   expSkills  : those of them in the title of every JobHeader line       *)
(*   words      : what re.findall(r'\b[a-zA-Z+#]{2,}\b') yields, in order  *)
(*   email, phone, linkedin, github : the text has a line with             *)
(*                "jane@example.com", "555-123-4567",                      *)
(*                "linkedin.com/in/jane-doe", "github.com/jane-doe"        *)
(*   pad        : the number of eight-character words of other prose, none *)
(*                of which any pattern of the code matches                 *)
(* The contact lines, the skills and the prose form the head of the text;  *)
(* `lines` follow it.  Every text ends with a newline, as                  *)
(* extract_text_from_pdf/_docx build it.                                   *)
(*                                                                         *)
(* The line kinds stand for these lines:                                   *)
(*   EXPERIENCE, EDUCATION, PROJECTS, SKILLS : the section headings        *)
(*   JobHeader : "Acme Technologies - Software Engineer" (with an em dash) *)
(*   DateLine  : "Remote | 01/2020 - 12/2021"                              *)
(*   Bullet    : "* Reduced page load time by 40%" (with a bullet glyph)   *)
(*   ProjTitle : "Image Tagger (OpenCV, NLTK)"                             *)
(*   ProjRich  : "ATS Scorer (Python, Java, React, SQL, MongoDB)"          *)
(*   ProjPlain : "Inventory Management System"                             *)
(*   Institute : "Indian Institute of Technology Delhi"                    *)
(*   School    : "Delhi Public School"                                     *)
(*   PhD       : "PhD in Physics"                                          *)
(*   Prose     : "Seeking a role where my five years of experience in data *)
(*                matter"                                                  *)
(*   Name      : "Jane Doe"                                                *)
(* and, in the experience sections of SpecExperience,                      *)
(*   DateEnDash : "01/2020 - 12/2021" (with an en dash)                    *)
(*   BulletYear : "* Migrated the 2019 billing records" (bullet glyph)     *)
(*   BulletDash : "* Cut build time - from 20 to 5 minutes" (bullet glyph, *)
(*                a hyphen between blanks)                                 *)
(* and, in the education sections of SpecEducation,                        *)
(*   GradYear  : "2016 - 2020"                                             *)
(*   FieldLine : "Computer Science"                                        *)
(* The dash of DateLine is a hyphen between blanks.                        *)
(***************************************************************************)
LineKinds ==
    {"EXPERIENCE", "EDUCATION", "PROJECTS", "SKILLS", "JobHeader", "DateLine", "Bullet",
     "ProjTitle", "ProjRich", "ProjPlain", "Institute", "School", "PhD", "Prose", "Name"}

LineLen(k) ==
    CASE k = "EXPERIENCE" -> 10 [] k = "EDUCATION" -> 9 [] k = "PROJECTS" -> 8
      [] k = "SKILLS" -> 6 [] k = "JobHeader" -> 37 [] k = "DateLine" -> 26
      [] k = "Bullet" -> 31 [] k = "ProjTitle" -> 27 [] k = "ProjRich" -> 46
      [] k = "ProjPlain" -> 27 [] k = "Institute" -> 36 [] k = "School" -> 19
      [] k = "PhD" -> 14 [] k = "Prose" -> 63 [] k = "Name" -> 8
      [] k = "DateEnDash" -> 17 [] k = "BulletYear" -> 35 [] k = "BulletDash" -> 39
      [] k = "GradYear" -> 11 [] k = "FieldLine" -> 16

EmptyText ==
    [lines |-> <<>>, filler |-> FALSE, textSkills |-> {}, secSkills |-> {}, expSkills |-> {},
     words |-> <<>>, email |-> FALSE, phone |-> FALSE, linkedin |-> FALSE, github |-> FALSE,
     pad |-> 0]

MkText(filler, textSkills, secSkills, words) ==
    [EmptyText EXCEPT !.filler = filler, !.textSkills = textSkills,
                      !.secSkills = secSkills, !.words = words]

RECURSIVE SumLen(_)
SumLen(ls) == IF ls = <<>> THEN 0 ELSE LineLen(Head(ls)) + 1 + SumLen(Tail(ls))

\* every taxonomy skill that is a substring of the text; the GitHub link
\* holds 'github' and 'git', the 41st and 42nd skill of common_skills.
GithubSkills == {41, 42}
RailsSkills == {52}                 \* 'rails' and 'tailwind' of the block hold 'ai', the 52nd
TextSkillSet(text) ==
    (IF text.filler THEN FillerSkills \cup RailsSkills ELSE {}) \cup text.textSkills
        \cup (IF text.github THEN GithubSkills ELSE {})

\* the characters of the head of the text, a skill written in eight characters
HeadLen(text) ==
    (IF text.email THEN 17 ELSE 0) + (IF text.phone THEN 13 ELSE 0)
    + (IF text.linkedin THEN 25 ELSE 0) + (IF text.github THEN 20 ELSE 0)
    + 8 * Cardinality((IF text.filler THEN FillerSkills ELSE {})
                          \cup (text.textSkills \ text.expSkills))
    + 8 * Len(text.words) + 9 * text.pad

\* len(text); the job header lines hold the skills of expSkills
TextLen(text) ==
    HeadLen(text) + SumLen(text.lines)
    + 8 * Cardinality(text.expSkills) * Len(SelectSeq(text.lines, LAMBDA l : l = "JobHeader"))

\* len(text.strip()): the text without its last newline
StrippedLen(text) == IF TextLen(text) = 0 THEN 0 ELSE TextLen(text) - 1

\* "not text" for "not text.strip()": never true of an extracted text, which
\* ends with a newline
IsBlank_unstripped(text) == FALSE

\* not text.strip()
IsBlank(text) == TextLen(text) = 0

RangeOf(s) == {s[i] : i \in 1..Len(s)}

RECURSIVE SortedSeq(_)
SortedSeq(S) ==
    IF S = {} THEN <<>>
    ELSE LET m == CHOOSE x \in S : \A y \in S : x <= y
         IN  <<m>> \o SortedSeq(S \ {m})

Prefix(s, k) == SubSeq(s, 1, IF Len(s) < k THEN Len(s) ELSE k)

MinOf(S) == CHOOSE x \in S : \A y \in S : x <= y

\* index of the first line of `kinds` at or after `from`, 0 if there is none
FirstIndex(lines, kinds, from) ==
    LET S == {i \in from..Len(lines) : lines[i] \in kinds}
    IN  IF S = {} THEN 0 ELSE MinOf(S)

\* the taxonomy skills that are substrings of a line
LineSkills(text, line) ==
    CASE line = "JobHeader" -> text.expSkills
      [] line = "ProjRich" -> {1, 2, 11, 25, 28}    \* python, java, react, sql, mongodb
      [] OTHER -> {}

\* the lines that hold 'education', 'experience' or 'projects'
EndsSkillsSection(line) == line \in {"EDUCATION", "EXPERIENCE", "PROJECTS", "Prose"}

\* The skills inside group(2) of the skills-section pattern.  The pattern takes
\* the first heading of the text: one in the head, whose section secSkills
\* gives and a blank line ends, or else the SKILLS line, whose section runs
\* to the next line that holds one of the three words.
SkillsSection(text) ==
    LET h == FirstIndex(text.lines, {"SKILLS"}, 1)
        e == FirstIndex(text.lines, {l \in LineKinds : EndsSkillsSection(l)}, h + 1)
        last == IF e = 0 THEN Len(text.lines) ELSE e - 1
    IN  IF text.secSkills # {} THEN text.secSkills
        ELSE IF h = 0 THEN {}
        ELSE UNION {LineSkills(text, text.lines[i]) : i \in (h + 1)..last}

SkillCap == 30
KeywordCap == 30
RequiredKeywordCap == 15

\* ResumeExtractor.extract_skills: the skills of the skills section in taxonomy
\* order, then the other skills of the text in taxonomy order, cut to 30.
extract_skills(text) ==
    LET in_section == SortedSeq(SkillsSection(text))
        elsewhere == SortedSeq(TextSkillSet(text) \ SkillsSection(text))
    IN  Prefix(in_section \o elsewhere, SkillCap)

RECURSIVE Unique(_, _)
Unique(s, seen) ==
    IF s = <<>> THEN <<>>
    ELSE IF Head(s) \in seen THEN Unique(Tail(s), seen)
         ELSE <<Head(s)>> \o Unique(Tail(s), seen \cup {Head(s)})

\* ATSScorer.extract_keywords: drop the common words, keep first occurrences, cut to 30.
extract_keywords(text) ==
    LET keywords == SelectSeq(text.words, LAMBDA w : w # StopWord)
    IN  Prefix(Unique(keywords, {}), KeywordCap)

\* SemanticMatcher.calculate_similarity(text1, text2) > 0.7
Similar(a, b) == a = b \/ {a, b} \in sim

\* SemanticMatcher.find_matching_skills
MatchesSome(req_skill, resume_skills) ==
    \/ \E i \in 1..Len(resume_skills) :                                        \* exact match
          StripSkill(LowerSkill(req_skill)) = StripSkill(LowerSkill(resume_skills[i]))
    \/ \E i \in 1..Len(resume_skills) : Similar(req_skill, resume_skills[i])   \* semantic match

\* find_matching_skills with the search for a match given up after the first
\* resume skill
find_matching_skills_first_only(resume_skills, required_skills) ==
    IF resume_skills = <<>> \/ required_skills = <<>>
    THEN [matched |-> <<>>, missing |-> required_skills]
    ELSE [matched |-> SelectSeq(required_skills, LAMBDA r : MatchesSome(r, <<resume_skills[1]>>)),
          missing |-> SelectSeq(required_skills, LAMBDA r : ~MatchesSome(r, <<resume_skills[1]>>))]

\* find_matching_skills without the "continue" after an exact match: the
\* skill goes on to the semantic search and, with no similar resume skill,
\* into missing as well
find_matching_skills_nocontinue(resume_skills, required_skills) ==
    IF resume_skills = <<>> \/ required_skills = <<>>
    THEN [matched |-> <<>>, missing |-> required_skills]
    ELSE [matched |-> SelectSeq(required_skills, LAMBDA r : MatchesSome(r, resume_skills)),
          missing |-> SelectSeq(required_skills,
                                LAMBDA r : ~\E i \in 1..Len(resume_skills) :
                                               Similar(r, resume_skills[i]))]

find_matching_skills(resume_skills, required_skills) ==
    IF resume_skills = <<>> \/ required_skills = <<>>
    THEN [matched |-> <<>>, missing |-> required_skills]
    ELSE [matched |-> SelectSeq(required_skills, LAMBDA r : MatchesSome(r, resume_skills)),
          missing |-> SelectSeq(required_skills, LAMBDA r : ~MatchesSome(r, resume_skills))]

\* score_skills with the linear mapping of the ratio to 0-100
SkillsBandScore_linear(matched_count, required_count) ==
    IF required_count = 0 THEN [error |-> "ZeroDivisionError"]
    ELSE [error |-> "none", score |-> RMul(Rat(matched_count, required_count), ToR(100))]

\* the banded scaling of score_skills; a division by zero raises
SkillsBandScore(matched_count, required_count) ==
    IF required_count = 0 THEN [error |-> "ZeroDivisionError"]
    ELSE LET match_percentage == Rat(matched_count, required_count)
         IN  [error |-> "none",
              score |->
                IF RGe(match_percentage, Rat(80, 100))
                THEN RAdd(ToR(85), RMul(RSub(match_percentage, Rat(80, 100)), ToR(75)))
                ELSE IF RGe(match_percentage, Rat(60, 100))
                THEN RAdd(ToR(70), RMul(RSub(match_percentage, Rat(60, 100)), ToR(75)))
                ELSE IF RGe(match_percentage, Rat(40, 100))
                THEN RAdd(ToR(50), RMul(RSub(match_percentage, Rat(40, 100)), ToR(100)))
                ELSE RMul(match_percentage, ToR(125))]

RequiredSkills(job_desc) ==
    LET from_taxonomy == extract_skills(job_desc)
    IN  IF from_taxonomy = <<>>
        THEN Prefix(extract_keywords(job_desc), RequiredKeywordCap)
        ELSE from_taxonomy

\* score_skills without "if not required_skills"
SkillsScoreOf_unguarded(matched_count, required_count) ==
    SkillsBandScore(matched_count, required_count)

\* score_skills from the two list lengths on: the default for an empty
\* required list, else the banded scaling
SkillsScoreOf(matched_count, required_count) ==
    IF required_count = 0
    THEN [error |-> "none", score |-> ToR(50)]
    ELSE SkillsBandScore(matched_count, required_count)

\* ATSScorer.score_skills
score_skills(resume, job_desc) ==
    LET resume_skills == extract_skills(resume)
        required_skills == RequiredSkills(job_desc)
        m == find_matching_skills(resume_skills, required_skills)
        scaled == SkillsScoreOf(Len(m.matched), Len(required_skills))
    IN  IF scaled.error # "none" THEN [error |-> scaled.error]
        ELSE [error |-> "none",
              score |-> RMin(scaled.score, ToR(100)),
              matched |-> m.matched,
              missing |-> m.missing,
              matched_count |-> Len(m.matched),
              missing_count |-> Len(m.missing)]

(***************************************************************************)
(* The section extractors of ats_components.ResumeExtractor.               *)
(***************************************************************************)
\* group(2) of the section regex, as lines: from the heading line (which needs
\* a newline before it when `first` is 2) to the next line that is one of
\* `enders`.  The heading's own trailing newline is consumed by the heading
\* pattern, so a line right under the heading never ends the section.
SectionBody(lines, heads, enders, first) ==
    LET h == FirstIndex(lines, heads, first)
        e == FirstIndex(lines, enders, h + 2)
    IN  IF h = 0 THEN <<>>
        ELSE SubSeq(lines, h + 1, IF e = 0 THEN Len(lines) ELSE e - 1)

\* length of the lines of an entry joined by newlines
EntryLen(entry) == SumLen(entry) - 1

\* extract_experience: the tests of the line loop
SkipsLine(line) ==          \* bullet start, achievement keyword, trailing dash or under 15 characters
    line \in {"EXPERIENCE", "EDUCATION", "PROJECTS", "SKILLS", "Bullet", "PhD", "Name"}
IsCompanyTitle(line) == line = "JobHeader"          \* re.match(company_title_pattern, line)
IsDateOrPlace(line) == line \in {"DateLine", "Institute", "School"}

RECURSIVE ExperienceLoop(_, _, _)
ExperienceLoop(ls, current_entry, entries) ==
    LET saved == IF current_entry # <<>> THEN Append(entries, current_entry) ELSE entries
    IN  IF ls = <<>> THEN saved
        ELSE IF SkipsLine(Head(ls)) THEN ExperienceLoop(Tail(ls), current_entry, entries)
        ELSE IF IsCompanyTitle(Head(ls)) THEN ExperienceLoop(Tail(ls), <<Head(ls)>>, saved)
        ELSE IF current_entry # <<>> /\ Len(current_entry) = 1 /\ IsDateOrPlace(Head(ls))
             THEN ExperienceLoop(Tail(ls), Append(current_entry, Head(ls)), entries)
        ELSE ExperienceLoop(Tail(ls), current_entry, entries)

\* a heading pattern that starts with a newline cannot match the first line of the text
FirstAfterNewline(text) == IF HeadLen(text) = 0 THEN 2 ELSE 1

\* ResumeExtractor.extract_experience
extract_experience(text) ==
    LET exp_text == SectionBody(text.lines, {"EXPERIENCE"}, {"SKILLS", "EDUCATION", "PROJECTS"},
                                FirstAfterNewline(text))
        entries == ExperienceLoop(exp_text, <<>>, <<>>)
    IN  SelectSeq(Prefix(entries, 5), LAMBDA e : EntryLen(e) > 20)

IsInstitution(line) == line \in {"Institute", "School"}     \* keyword and over 15 characters

RECURSIVE EducationLoop(_, _, _)
EducationLoop(ls, current_entry, entries) ==
    LET saved == IF current_entry # <<>> THEN Append(entries, current_entry) ELSE entries
    IN  IF ls = <<>> THEN saved
        ELSE IF IsInstitution(Head(ls)) THEN EducationLoop(Tail(ls), <<Head(ls)>>, saved)
        ELSE IF current_entry # <<>> /\ Len(current_entry) < 4
             THEN EducationLoop(Tail(ls), Append(current_entry, Head(ls)), entries)
        ELSE EducationLoop(Tail(ls), current_entry, entries)

\* ResumeExtractor.extract_education
extract_education(text) ==
    LET edu_text == SectionBody(text.lines, {"EDUCATION"}, {"PROJECTS", "SKILLS", "EXPERIENCE"}, 1)
        entries == EducationLoop(edu_text, <<>>, <<>>)
    IN  SelectSeq(Prefix(entries, 3), LAMBDA e : EntryLen(e) > 15)

IsProjectHeader(line) == line \in {"ProjTitle", "ProjRich", "ProjPlain"}
StartsWithBullet(line) == line = "Bullet"
IsLinkOrShort(line) == line # "Prose"                \* a GitHub link or under 50 characters

RECURSIVE ProjectLoop(_, _, _)
ProjectLoop(ls, current_project, projects_list) ==
    LET saved == IF current_project # <<>> THEN Append(projects_list, current_project)
                 ELSE projects_list
    IN  IF ls = <<>> THEN saved
        ELSE IF IsProjectHeader(Head(ls)) THEN ProjectLoop(Tail(ls), <<Head(ls)>>, saved)
        ELSE IF /\ current_project # <<>>
                /\ ~StartsWithBullet(Head(ls))
                /\ Len(current_project) = 1
                /\ IsLinkOrShort(Head(ls))
             THEN ProjectLoop(Tail(ls), Append(current_project, Head(ls)), projects_list)
        ELSE ProjectLoop(Tail(ls), current_project, projects_list)

MainLines(entries) == [i \in 1..Len(entries) |-> <<entries[i][1]>>]

\* ResumeExtractor.extract_projects: the title line of each kept project
extract_projects(text) ==
    LET proj_text == SectionBody(text.lines, {"PROJECTS"}, {"SKILLS", "EDUCATION", "EXPERIENCE"},
                                 FirstAfterNewline(text))
        projects_list == ProjectLoop(proj_text, <<>>, <<>>)
    IN  MainLines(SelectSeq(Prefix(projects_list, 5), LAMBDA e : EntryLen(e) > 15))

\* ContactExtractor.extract_contact: which of the four patterns matched
\* (the phone pattern also matches "2020 - 12" in the date line)
extract_contact(text) ==
    [email |-> text.email,
     phone |-> text.phone \/ "DateLine" \in RangeOf(text.lines),
     linkedin |-> text.linkedin,
     github |-> text.github]

(***************************************************************************)
(* ats_components.ATSScorer: the section scores and the overall score.     *)
(***************************************************************************)
\* sum(scores[i] * weights[i]) over the six sections
RECURSIVE SumSeq(_)
SumSeq(q) == IF q = <<>> THEN ToR(0) ELSE RAdd(q[1], SumSeq(Tail(q)))
WeightedSum(scores, weights) == SumSeq([i \in 1..Len(scores) |-> RMul(scores[i], weights[i])])

skills_weight_half == Rat(50, 100)     \* a weight that makes the six sum to more than 1
skills_weight == Rat(40, 100)
header_weight == Rat(10, 100)
experience_weight == Rat(15, 100)
projects_weight == Rat(5, 100)
education_weight == Rat(20, 100)
format_weight == Rat(10, 100)

\* ATSScorer.score_header
score_header(resume) ==
    LET contact == extract_contact(resume)
        score == (IF contact.email THEN 40 ELSE 0) + (IF contact.phone THEN 30 ELSE 0)
                 + (IF contact.linkedin THEN 15 ELSE 0) + (IF contact.github THEN 15 ELSE 0)
    IN  RMin(ToR(score), ToR(100))

HasDash(line) == line = "JobHeader"                 \* an em or en dash in the line

\* ATSScorer.score_experience.  The skills of the job that are substrings of
\* the experience entries are those of resume.expSkills.
score_experience(resume, job_desc) ==
    LET experience == extract_experience(resume)
        base_score == IF Len(experience) >= 1 THEN 60 ELSE 0
        job_skills == extract_skills(job_desc)
        matched_count == Cardinality({i \in 1..Len(job_skills) : job_skills[i] \in resume.expSkills})
        match_percentage == Rat(matched_count, Len(job_skills))
        scaled == IF RGe(match_percentage, Rat(30, 100))
                  THEN RAdd(ToR(20), RMul(RSub(match_percentage, Rat(30, 100)), ToR(17)))
                  ELSE IF RGe(match_percentage, Rat(15, 100))
                  THEN RAdd(ToR(15), RMul(RSub(match_percentage, Rat(15, 100)), ToR(33)))
                  ELSE RMul(match_percentage, ToR(100))
        keyword_score == IF job_skills # <<>> THEN RMin(scaled, ToR(25)) ELSE ToR(20)
        ats_format_count ==
            Cardinality({i \in 1..Len(experience) :
                            \E j \in 1..Len(experience[i]) : HasDash(experience[i][j])})
        quality_score == IF Len(experience) >= 2
                         THEN (IF ats_format_count >= 2 THEN 15
                               ELSE IF ats_format_count >= 1 THEN 12 ELSE 8)
                         ELSE IF Len(experience) = 1 THEN 10 ELSE 0
    IN  IF experience = <<>> THEN ToR(0)
        ELSE RMin(RAdd(RAdd(ToR(base_score), keyword_score), ToR(quality_score)), ToR(100))

\* the tech_indicators that are substrings of a line
TechOf(line) ==
    CASE line = "ProjTitle" -> {"opencv", "nltk"}
      [] line = "ProjRich" -> {"python", "java", "react", "sql", "mongodb"}
      [] OTHER -> {}
HasParens(line) == line \in {"ProjTitle", "ProjRich"}

\* ATSScorer.score_projects
score_projects(resume, job_desc) ==
    LET projects == extract_projects(resume)
        base_score == IF Len(projects) >= 1 THEN 65 ELSE 0
        tech_count == Cardinality(UNION {TechOf(projects[i][1]) : i \in 1..Len(projects)})
        tech_score == IF tech_count >= 5 THEN 20
                      ELSE IF tech_count >= 3 THEN 15
                      ELSE IF tech_count >= 1 THEN 10 ELSE 5
        has_tech_format == \E i \in 1..Len(projects) : HasParens(projects[i][1])
        quality_score == IF Len(projects) >= 2 THEN (IF has_tech_format THEN 15 ELSE 10)
                         ELSE IF Len(projects) = 1 THEN 8 ELSE 0
    IN  IF projects = <<>> THEN ToR(0)
        ELSE RMin(ToR(base_score + tech_score + quality_score), ToR(100))

\* which degree keyword list a line hits: 3 doctorate, 2 master, 1 bachelor, 0 none
DegreeTier(line) == CASE line = "PhD" -> 3 [] line = "Institute" -> 1 [] OTHER -> 0
HasQualityIndicator(line) == line = "Institute"

\* ATSScorer.score_education
score_education(resume) ==
    LET education == extract_education(resume)
        edu_lines == UNION {RangeOf(education[i]) : i \in 1..Len(education)}
        degree_score == IF \E l \in edu_lines : DegreeTier(l) = 3 THEN 20
                        ELSE IF \E l \in edu_lines : DegreeTier(l) = 2 THEN 18
                        ELSE IF \E l \in edu_lines : DegreeTier(l) = 1 THEN 15 ELSE 10
        institution_score == IF \E l \in edu_lines : HasQualityIndicator(l) THEN 10 ELSE 5
    IN  IF education = <<>> THEN ToR(0)
        ELSE RMin(ToR(70 + degree_score + institution_score), ToR(100))

\* the lines in which \bexperience\b, \beducation\b, \bskills\b match
SectionWordLines(section) ==
    CASE section = "experience" -> {"EXPERIENCE", "Prose"}
      [] section = "education" -> {"EDUCATION"}
      [] section = "skills" -> {"SKILLS"}
      [] section = "projects" -> {"PROJECTS"}
HasBulletChar(line) == line \in {"DateLine", "Bullet"}
HeadHasDash(text) == text.phone \/ text.linkedin \/ text.github
\* the words of the text that the section patterns can match
SectionWords(text) ==
    {sec \in {"experience", "education", "skills", "projects"} :
        RangeOf(text.lines) \cap SectionWordLines(sec) # {}}
      \cup (IF text.secSkills # {} THEN {"skills"} ELSE {})

\* ATSScorer.score_format
score_format(resume) ==
    LET kinds == RangeOf(resume.lines)
        found == SectionWords(resume) \cap {"experience", "education", "skills"}
        length == TextLen(resume)
        score == 20 * Cardinality(found)
                 + (IF HeadHasDash(resume) \/ \E l \in kinds : HasBulletChar(l) THEN 20 ELSE 0)
                 + (IF 500 <= length /\ length <= 3000 THEN 20
                    ELSE IF (300 <= length /\ length < 500) \/ (3000 < length /\ length <= 5000)
                         THEN 10 ELSE 0)
    IN  RMin(ToR(score), ToR(100))

\* line 712: matched over matched plus missing, guarded against an empty sum
SkillMatchRate(matched_count, missing_count) ==
    IF matched_count + missing_count > 0
    THEN [error |-> "none", rate |-> Rat(matched_count, matched_count + missing_count)]
    ELSE [error |-> "none", rate |-> ToR(0)]

\* ATSScorer.score_resume, lines 697-738: what it makes of the six section
\* results and the two entry lists
\* the condition of the holistic bonus with one project entry taken as enough
BonusApplies_oneproject(skill_match_rate, skills_score, n_experience, n_projects, experience_score, projects_score) ==
    /\ RGe(skill_match_rate, Rat(70, 100))
    /\ RGe(skills_score, ToR(80))
    /\ n_experience >= 2
    /\ n_projects >= 1
    /\ RGe(experience_score, ToR(65))
    /\ RGe(projects_score, ToR(60))

\* score_resume, lines 714-719: the condition of the holistic bonus
BonusApplies(skill_match_rate, skills_score, n_experience, n_projects, experience_score, projects_score) ==
    /\ RGe(skill_match_rate, Rat(70, 100))
    /\ RGe(skills_score, ToR(80))
    /\ n_experience >= 2
    /\ n_projects >= 2
    /\ RGe(experience_score, ToR(65))
    /\ RGe(projects_score, ToR(60))

\* the weights in the order score_resume adds the sections up (lines 698-705)
ScorerWeights ==
    <<skills_weight, header_weight, experience_weight, projects_weight, education_weight,
      format_weight>>

CombineScores(skills, header_score, experience_score, projects_score, education_score, format_score, experience_entries, project_entries) ==
    LET weighted == WeightedSum(<<skills.score, header_score, experience_score, projects_score, education_score, format_score>>, ScorerWeights)
        skill_match_rate == SkillMatchRate(skills.matched_count, skills.missing_count)
        bonus_applies == BonusApplies(skill_match_rate.rate, skills.score, Len(experience_entries), Len(project_entries), experience_score, projects_score)
    IN  IF skills.error # "none" THEN [error |-> skills.error]
        ELSE IF skill_match_rate.error # "none" THEN [error |-> skill_match_rate.error]
        ELSE [error |-> "none",
              overall_score |-> IF bonus_applies THEN RMin(RAdd(weighted, ToR(8)), ToR(100))
                                ELSE weighted,
              skills_score |-> skills.score,
              header_score |-> header_score,
              experience_score |-> experience_score,
              projects_score |-> projects_score,
              education_score |-> education_score,
              format_score |-> format_score,
              matched_skills |-> skills.matched,
              missing_skills |-> skills.missing,
              matched_count |-> skills.matched_count,
              missing_count |-> skills.missing_count]

\* ATSScorer.score_resume
score_resume(resume, job_desc) ==
    CombineScores(score_skills(resume, job_desc), score_header(resume),
                  score_experience(resume, job_desc), score_projects(resume, job_desc),
                  score_education(resume), score_format(resume),
                  extract_experience(resume), extract_projects(resume))

(***************************************************************************)
(* The fallback classes of app.py, in use when ats_components cannot be    *)
(* imported.                                                               *)
(***************************************************************************)
MinInt(a, b) == IF a < b THEN a ELSE b

\* round(x, 1), as tenths: halves go to the even tenth
RoundTenths(x) ==
    LET twice == (2 * 10 * x.n) \div x.d            \* floor(20 x)
        exact == (2 * 10 * x.n) % x.d = 0
        low == twice \div 2                         \* floor(10 x)
    IN  IF twice % 2 = 0 THEN low
        ELSE IF exact THEN (IF low % 2 = 0 THEN low ELSE low + 1)
        ELSE low + 1
Round1(x) == Rat(RoundTenths(x), 10)

\* The lines of the head of the text: its contact lines, one line for the
\* block of skills, one for its other skills, one for its words, and its
\* prose six words to a line.
RECURSIVE ProseLines(_)
ProseLines(n) ==
    IF n = 0 THEN <<>> ELSE IF n < 6 THEN <<"ProseRest">> ELSE <<"Prose6">> \o ProseLines(n - 6)
HeadLines(text) ==
    (IF text.email THEN <<"Email">> ELSE <<>>) \o (IF text.phone THEN <<"Phone">> ELSE <<>>)
    \o (IF text.linkedin THEN <<"Linkedin">> ELSE <<>>)
    \o (IF text.github THEN <<"Github">> ELSE <<>>)
    \o (IF text.filler THEN <<"SkillBlock">> ELSE <<>>)
    \o (IF text.textSkills \ text.expSkills # {} THEN <<"SkillList">> ELSE <<>>)
    \o (IF text.words # <<>> THEN <<"WordList">> ELSE <<>>) \o ProseLines(text.pad)

\* text.split('\n'), without the empty string after the last newline
AllLines(text) == HeadLines(text) \o text.lines

\* len(text.split())
WordsOfLine(line) ==
    CASE line \in {"EXPERIENCE", "EDUCATION", "PROJECTS", "SKILLS"} -> 1
      [] line \in {"JobHeader", "DateLine", "Institute"} -> 5
      [] line \in {"Bullet", "ProjRich"} -> 7
      [] line = "ProjTitle" -> 4
      [] line \in {"ProjPlain", "School", "PhD"} -> 3
      [] line = "Prose" -> 12
      [] line = "Name" -> 2
RECURSIVE SumWords(_)
SumWords(ls) == IF ls = <<>> THEN 0 ELSE WordsOfLine(Head(ls)) + SumWords(Tail(ls))
WordCount(text) ==
    (IF text.email THEN 1 ELSE 0) + (IF text.phone THEN 1 ELSE 0)
    + (IF text.linkedin THEN 1 ELSE 0) + (IF text.github THEN 1 ELSE 0)
    + Cardinality((IF text.filler THEN FillerSkills ELSE {})
                      \cup (text.textSkills \ text.expSkills))
    + Len(text.words) + text.pad + SumWords(text.lines)
    + Cardinality(text.expSkills) * Len(SelectSeq(text.lines, LAMBDA l : l = "JobHeader"))

\* common_skills of the fallback scorer, as far as they are taxonomy skills, in its order
ScorerSkills ==
    <<1, 2, 3, 11, 12, 25, 28, 33, 34, 36, 37, 42, 20, 21, 4, 18, 16, 17, 50, 58, 60, 55, 56,
      43, 65, 66>>
ImportantSkills == <<1, 2, 3, 25, 42, 20, 21>>      \* python, java, javascript, sql, git, html, css
TechSkills == {1, 2, 3, 11}                         \* names with python, java, react or node

CountLines(text, kinds) == Len(SelectSeq(text.lines, LAMBDA l : l \in kinds))

\* re.match(r'^[A-Z][a-zA-Z\s]{2,40}$') on a line
LooksLikeName(line) ==
    line \in {"EXPERIENCE", "EDUCATION", "PROJECTS", "SKILLS", "ProjPlain", "Institute",
              "School", "PhD", "Name"}

\* one of the first n lines of the text satisfies Test
NameAmongFirst(text, n) ==
    \E i \in 1..MinInt(n, Len(AllLines(text))) : LooksLikeName(AllLines(text)[i])

ExperienceIndicators(line) ==
    CASE line = "EXPERIENCE" -> {"experience"}
      [] line = "Prose" -> {"experience", "role"}
      [] OTHER -> {}
ProjectIndicators(line) ==
    CASE line = "PROJECTS" -> {"project"}
      [] line = "JobHeader" -> {"software"}
      [] line = "ProjPlain" -> {"system"}
      [] OTHER -> {}
EduKeywords(line) ==
    CASE line = "Institute" -> {"institute"} [] line = "School" -> {"school"} [] OTHER -> {}
DegreeKeywords(line) == IF line = "PhD" THEN {"phd"} ELSE {}

TooShortResult ==
    [error |-> "none", overall_score |-> ToR(25), skills_score |-> ToR(20),
     header_score |-> ToR(30), experience_score |-> ToR(25), projects_score |-> ToR(20),
     education_score |-> ToR(25), format_score |-> ToR(30), matched_skills |-> <<>>,
     missing_skills |-> <<>>, message |-> "Resume too short or invalid"]

\* the fallback SemanticMatcher.match_skills
fallback_match_skills(resume_skills, job_skills) ==
    IF resume_skills = <<>> \/ job_skills = <<>>
    THEN [matched |-> <<>>, missing |-> Prefix(job_skills, 5)]
    ELSE LET resume_lower == {LowerSkill(resume_skills[i]) : i \in 1..Len(resume_skills)}
         IN  [matched |-> SelectSeq(job_skills, LAMBDA j : LowerSkill(j) \in resume_lower),
              missing |-> Prefix(SelectSeq(job_skills, LAMBDA j : LowerSkill(j) \notin resume_lower), 10)]

\* the fallback ResumeParser._extract_experience.  An entry is [company,
\* title, dates, location, achievements, description, line]: the first two as
\* "is it non-empty", dates and location as the line they were read from (""
\* if none), achievements and description as the lines they were read from,
\* and `line` as the line the company and the title were split from.
\* 'experience' in a line under 30 long
FallbackIsExperience(line) == line \in {"EXPERIENCE", "Prose"} /\ LineLen(line) < 30
\* 'projects', 'education', 'skills' or 'certifications' in a line under 30 long
FallbackIsOtherSection(line) == line \in {"EDUCATION", "PROJECTS", "SKILLS"}
\* an em dash, or a hyphen between blanks
FallbackIsHeader(line) == line \in {"JobHeader", "DateLine", "BulletDash"}
FallbackHasDate(line) == line \in {"DateLine", "DateEnDash", "BulletYear"}   \* \d{2}/\d{4}|\d{4}
\* '|', 'remote', 'delhi', 'mumbai', 'bangalore' or 'india'
FallbackHasLocation(line) == line \in {"DateLine", "Institute", "School"}
FallbackIsBullet(line) == line \in {"Bullet", "BulletYear", "BulletDash"}
NewExp(line) ==
    [company |-> TRUE, title |-> TRUE, dates |-> "", location |-> "", achievements |-> <<>>,
     description |-> <<>>, line |-> line]

\* the loop of lines 279-338; current_exp is <<>> for None, else <<entry>>
RECURSIVE FallbackExperienceLoop(_, _, _, _)
FallbackExperienceLoop(ls, in_experience_section, current_exp, experience) ==
    LET line == Head(ls)
        rest == Tail(ls)
    IN  IF ls = <<>> THEN experience \o current_exp
        ELSE IF FallbackIsExperience(line)
             THEN FallbackExperienceLoop(rest, TRUE, current_exp, experience)
        ELSE IF FallbackIsOtherSection(line)
             THEN FallbackExperienceLoop(rest, FALSE, <<>>, experience \o current_exp)
        ELSE IF ~in_experience_section
             THEN FallbackExperienceLoop(rest, FALSE, current_exp, experience)
        ELSE IF FallbackIsHeader(line)
             THEN FallbackExperienceLoop(rest, TRUE, <<NewExp(line)>>, experience \o current_exp)
        ELSE IF current_exp = <<>>
             THEN FallbackExperienceLoop(rest, TRUE, current_exp, experience)
        ELSE IF FallbackHasDate(line)
             THEN FallbackExperienceLoop(rest, TRUE,
                                         <<[current_exp[1] EXCEPT !.dates = line]>>, experience)
        ELSE IF FallbackHasLocation(line)
             THEN FallbackExperienceLoop(rest, TRUE,
                                         <<[current_exp[1] EXCEPT !.location = line]>>, experience)
        ELSE IF FallbackIsBullet(line)
             THEN FallbackExperienceLoop(rest, TRUE,
                      <<[current_exp[1] EXCEPT !.achievements =
                            IF LineLen(line) - 2 > 10 THEN Append(@, line) ELSE @]>>,
                      experience)
        ELSE IF LineLen(line) > 30
             THEN FallbackExperienceLoop(rest, TRUE,
                      <<[current_exp[1] EXCEPT !.description = Append(@, line)]>>, experience)
        ELSE FallbackExperienceLoop(rest, TRUE, current_exp, experience)

fallback_extract_experience(text) ==
    Prefix(FallbackExperienceLoop(text.lines, FALSE, <<>>, <<>>), 5)

\* the weights of the fallback ATSScorer, in the order of lines 200-201: skills,
\* experience, projects, education, header, format
FallbackWeights == <<Rat(35, 100), Rat(25, 100), Rat(15, 100), Rat(12, 100), Rat(8, 100), Rat(5, 100)>>

\* the fallback ATSScorer.score_resume
fallback_score_resume(resume_text_, job_description_) ==
    LET kinds == RangeOf(resume_text_.lines)
        found_skills == SelectSeq(ScorerSkills, LAMBDA k : k \in TextSkillSet(resume_text_))
        job_skills == IF TextLen(job_description_) > 50
                      THEN SelectSeq(ScorerSkills, LAMBDA k : k \in TextSkillSet(job_description_))
                      ELSE <<>>
        base_score == MinInt(95, 25 + Len(found_skills) * 6)
        relevant_matches == SelectSeq(found_skills, LAMBDA k : k \in RangeOf(job_skills))
        skills_score == IF job_skills # <<>>
                        THEN MinInt(95, base_score + Len(relevant_matches) * 8)
                        ELSE base_score
        header_score ==
            MinInt(95, 20 + (IF resume_text_.email THEN 30 ELSE 0)
                          + (IF resume_text_.phone THEN 20 ELSE 0)
                          + (IF resume_text_.linkedin \/ resume_text_.github THEN 15 ELSE 0)
                          + (IF NameAmongFirst(resume_text_, 10) THEN 10 ELSE 0))
        exp_count == Cardinality(UNION {ExperienceIndicators(l) : l \in kinds})
        date_patterns == 2 * CountLines(resume_text_, {"DateLine"})
        company_indicators == 0
        experience_score ==
            MinInt(95, 20 + MinInt(30, exp_count * 3) + MinInt(25, date_patterns * 4)
                          + MinInt(20, company_indicators * 10))
        proj_count == Cardinality(UNION {ProjectIndicators(l) : l \in kinds}
                            \cup (IF resume_text_.github THEN {"github"} ELSE {}))
        github_mentions == IF resume_text_.github THEN 2 ELSE 0
        tech_diversity == Len(SelectSeq(found_skills, LAMBDA k : k \in TechSkills))
        projects_score ==
            MinInt(95, 15 + MinInt(35, proj_count * 4) + MinInt(25, github_mentions * 12)
                          + MinInt(25, tech_diversity * 5))
        edu_institutions == Cardinality(UNION {EduKeywords(l) : l \in kinds})
        degree_mentions == Cardinality(UNION {DegreeKeywords(l) : l \in kinds})
        education_score ==
            MinInt(95, 25 + MinInt(40, edu_institutions * 20) + MinInt(25, degree_mentions * 8))
        word_count == WordCount(resume_text_)
        bullet_points == CountLines(resume_text_, {"DateLine", "Bullet"})
                         + (IF resume_text_.phone THEN 2 ELSE 0)
                         + (IF resume_text_.linkedin THEN 1 ELSE 0)
                         + (IF resume_text_.github THEN 1 ELSE 0)
        section_count == Cardinality(SectionWords(resume_text_))
        format_score ==
            MinInt(95, 30 + (IF 300 <= word_count /\ word_count <= 800 THEN 25
                             ELSE IF (200 <= word_count /\ word_count < 300)
                                     \/ (800 < word_count /\ word_count <= 1200) THEN 15
                             ELSE IF word_count > 100 THEN 10 ELSE 0)
                          + (IF bullet_points > 5 THEN 15 ELSE 0)
                          + MinInt(25, section_count * 8))
        weighted == WeightedSum(<<ToR(skills_score), ToR(experience_score), ToR(projects_score), ToR(education_score), ToR(header_score), ToR(format_score)>>, FallbackWeights)
        missing_skills ==
            IF job_skills # <<>>
            THEN SelectSeq(job_skills, LAMBDA k : k \notin RangeOf(found_skills))
            ELSE SelectSeq(ImportantSkills, LAMBDA k : k \notin RangeOf(found_skills))
    IN  IF IsBlank(resume_text_) \/ StrippedLen(resume_text_) < 50 THEN TooShortResult
        ELSE [error |-> "none", overall_score |-> Round1(weighted),
              skills_score |-> ToR(skills_score), header_score |-> ToR(header_score),
              experience_score |-> ToR(experience_score),
              projects_score |-> ToR(projects_score),
              education_score |-> ToR(education_score), format_score |-> ToR(format_score),
              matched_skills |-> Prefix(found_skills, 15),
              missing_skills |-> Prefix(missing_skills, 8),
              message |-> "Enhanced fallback analysis"]

\* common_skills of the fallback parser, as far as they are taxonomy skills, in
\* its order; 101 stands for its 'go', which 'django' and 'mongodb' hold
GoSkill == 101
ParserSkills == <<1, 2, 3, 11, 12, 25, 28, 33, 34, 36, 37, 42, 20, 21, 4, 5, 6, 8, 7, 9, 10,
                  GoSkill, 55, 56, 60, 61, 57, 50, 58, 51, 53>>

\* the fallback ResumeParser.parse_resume: its skills; the entity lists it
\* also returns are a function of the text alone and are not modelled here
fallback_parse_resume(text) ==
    LET held == TextSkillSet(text) \cup (IF TextSkillSet(text) \cap {16, 28} # {}
                                         THEN {GoSkill} ELSE {})
    IN  [skills |-> SelectSeq(ParserSkills, LAMBDA k : k \in held)]

\* letters, blanks, dots and hyphens only, under 50 characters, at most four words
IsNameLine(text, line) ==
    \/ line \in {"EXPERIENCE", "EDUCATION", "PROJECTS", "SKILLS", "ProjPlain", "School",
                 "PhD", "Name"}
    \/ line = "SkillList" /\ Cardinality(text.textSkills \ text.expSkills) = 1
    \/ line = "WordList" /\ Len(text.words) <= 4
    \/ line = "ProseRest" /\ text.pad % 6 <= 4

\* the fallback ContactExtractor.extract_contact_info; the name is the
\* position of the line it was taken from, 0 for ''
fallback_extract_contact_info(text) ==
    LET first == MinInt(5, Len(AllLines(text)))
        named == {i \in 1..first : IsNameLine(text, AllLines(text)[i])}
    IN  [email |-> text.email, phone |-> text.phone,
         name |-> IF named = {} THEN 0 ELSE MinOf(named)]

(***************************************************************************)
(* ats_engine_new.ATSResumeAnalyzer: experience extraction and its score.  *)
(* A job is [title, company, duration, responsibilities], the first two    *)
(* as "is it non-empty", the duration as the line it was read from ("" if  *)
(* none) and the responsibilities as the lines they were read from.        *)
(***************************************************************************)
\* ATSResumeAnalyzer.WEIGHTS
WEIGHTS_heavy ==
    [contact_info |-> Rat(5, 100), experience |-> Rat(45, 100), education |-> Rat(15, 100),
     skills |-> Rat(25, 100), projects |-> Rat(10, 100), format_quality |-> Rat(10, 100)]
WEIGHTS ==
    [contact_info |-> Rat(5, 100), experience |-> Rat(35, 100), education |-> Rat(15, 100),
     skills |-> Rat(25, 100), projects |-> Rat(10, 100), format_quality |-> Rat(10, 100)]

\* the weights in the order analyze_resume adds the sections up (lines 63-70)
EngineWeights ==
    <<WEIGHTS.contact_info, WEIGHTS.experience, WEIGHTS.education, WEIGHTS.skills,
      WEIGHTS.projects, WEIGHTS.format_quality>>

\* the line holds 'experience', 'employment' or 'work history'
HasExperienceWord(line) == line \in {"EXPERIENCE", "Prose"}
\* the heading test without "len(line) < 50"
IsExperienceHeading_anylength(line) == HasExperienceWord(line)
IsExperienceHeading(line) == HasExperienceWord(line) /\ LineLen(line) < 50
\* the line holds 'education', 'skills', 'projects' or 'certifications' and is under 50 long
IsOtherHeading(line) == line \in {"EDUCATION", "SKILLS", "PROJECTS"}
\* re.split at the first ' at ', ' @ ', ' - ', ' | ' or dash yields two parts
SplitsInTwo(line) == line \in {"JobHeader", "DateLine", "BulletDash"}
\* \d{1,2}/\d{4}, \d{4}, present, current
HasDate(line) == line \in {"DateLine", "DateEnDash", "BulletYear"}
HasPlace(line) == FALSE                             \* "City, ST": in none of the lines
\* bullet start or an action verb
IsResponsibility(line) == line \in {"Bullet", "BulletYear", "BulletDash"}
IsQuantified(line) == line = "Bullet"               \* \d+%, $\d+, increased, improved, ...
HasYearWord(line) == line = "Prose"                 \* 'year' or 'yr'

\* `line` is the line the title and the company were taken from
NewJob(line) ==
    [title |-> TRUE, company |-> SplitsInTwo(line), duration |-> "", responsibilities |-> <<>>,
     line |-> line]

\* the loop of _extract_experience; current_job is <<>> for None, else <<job>>
RECURSIVE EngineExperienceLoop(_, _, _, _)
EngineExperienceLoop(ls, in_experience_section, current_job, experience) ==
    LET line == Head(ls)
        rest == Tail(ls)
        saved == experience \o current_job
    IN  IF ls = <<>> THEN saved
        ELSE IF IsExperienceHeading(line)
             THEN EngineExperienceLoop(rest, TRUE, current_job, experience)
        \* the break leaves the loop after appending current_job, and the
        \* statement after the loop appends it once more
        ELSE IF in_experience_section /\ IsOtherHeading(line) THEN saved \o current_job
        ELSE IF ~in_experience_section
             THEN EngineExperienceLoop(rest, in_experience_section, current_job, experience)
        ELSE IF current_job = <<>> \/ Len(current_job[1].responsibilities) > 0
             THEN EngineExperienceLoop(rest, TRUE, <<NewJob(line)>>, saved)
        ELSE IF HasDate(line)
             THEN EngineExperienceLoop(rest, TRUE,
                                       <<[current_job[1] EXCEPT !.duration = line]>>, experience)
        ELSE IF HasPlace(line)
             THEN EngineExperienceLoop(rest, TRUE, current_job, experience)
        ELSE IF IsResponsibility(line)
             THEN EngineExperienceLoop(rest, TRUE,
                      <<[current_job[1] EXCEPT !.responsibilities = Append(@, line)]>>,
                      experience)
        ELSE EngineExperienceLoop(rest, TRUE, current_job, experience)

\* ATSResumeAnalyzer._extract_experience
engine_extract_experience(text) ==
    Prefix(EngineExperienceLoop(text.lines, FALSE, <<>>, <<>>), 5)

JobScore(job) ==
    LET quantified == Len(SelectSeq(job.responsibilities, IsQuantified))
        job_score == (IF job.title THEN 15 ELSE 0) + (IF job.company THEN 15 ELSE 0)
                     + (IF job.duration # "" THEN 10 ELSE 0)
                     + (IF job.responsibilities # <<>>
                        THEN MinInt(30, Len(job.responsibilities) * 5) + MinInt(20, quantified * 5)
                        ELSE 0)
                     + (IF job.duration # "" /\ HasYearWord(job.duration) THEN 10 ELSE 0)
    IN  MinInt(job_score, 80)

RECURSIVE SumJobScores(_)
SumJobScores(experience) ==
    IF experience = <<>> THEN 0 ELSE JobScore(Head(experience)) + SumJobScores(Tail(experience))

\* ATSResumeAnalyzer._score_experience
engine_score_experience(experience) ==
    IF experience = <<>> THEN ToR(0)
    ELSE LET average_score == Rat(SumJobScores(experience), Len(experience))
             experience_bonus == MinInt(20, Len(experience) * 5)
         IN  RMin(RAdd(average_score, ToR(experience_bonus)), ToR(100))

(***************************************************************************)
(* SpecSkills: score_skills applied to bounded resumes and job             *)
(* descriptions, and to a resume with one more skill written into it.      *)
(***************************************************************************)
SimPairs == {{a, b} : a \in VaryingSkills \cup {1001}, b \in VaryingSkills} \ {{a} : a \in VaryingSkills}
SimChoices == {{}} \cup {{p} : p \in SimPairs}

ResumeTexts ==
    {MkText(f, t, s, <<>>) : f \in BOOLEAN, t \in SUBSET VaryingSkills, s \in SUBSET VaryingSkills}

WordLists == UNION {[1..k -> WordTokens] : k \in 0..MaxWords}

JobTexts ==
    {MkText(FALSE, t, {}, <<>>) : t \in (SUBSET VaryingSkills) \ {{}}}
      \cup {MkText(FALSE, {}, {}, w) : w \in WordLists}

IdleTexts == sim = {} /\ resume_text = NoText /\ job_description = NoText
IdleSkills == skills_result = NoResult /\ resume_b = NoText /\ skills_result_b = NoResult
IdleBands == band_matched = 0 /\ band_required = 0 /\ band_score = NoResult
IdleScore ==
    /\ extracted_experience = NoResult /\ score_result = NoResult
    /\ engine_result = NoResult /\ overall_score_int = NoResult
IdleClassify == overall_score = ToR(0) /\ classification = "none"
IdleWeights == six_scores = NoResult /\ weighted_overall = NoResult
IdleBonus == bonus_input = NoResult /\ bonus_result = NoResult
IdleMatch ==
    /\ resume_skill_list = <<>> /\ required_skill_list = <<>>
    /\ matching = NoResult /\ matching_reordered = NoResult /\ fallback_matching = NoResult
IdleVerdict == verdict_input = NoResult /\ verdict_row = NoResult
IdleParser == experience_text = NoText /\ engine_jobs = NoResult /\ fallback_jobs = NoResult
IdleEducation ==
    education_text = NoText /\ engine_education = NoResult /\ fallback_education = NoResult
IdleManager ==
    /\ _models = <<>> /\ _model_stats = <<>> /\ _lock = 0
    /\ matcher_model = [kind |-> "None"] /\ load_count = <<>> /\ callers = <<>>
IdleRecent == history_before = <<>> /\ limit = 0 /\ recent_sessions = NoResult
IdleCache ==
    /\ connected = FALSE /\ use_pickle = FALSE /\ redis_data = <<>> /\ now = 0
    /\ calls_made = 0 /\ last_call = NoResult
IdleStats == timed_stats = <<>> /\ clock = 0 /\ stage_calls = <<>> /\ recorded = <<>>
IdleMore == IdleEducation /\ IdleManager /\ IdleRecent /\ IdleCache /\ IdleStats
IdlePure == IdleWeights /\ IdleBonus /\ IdleMatch /\ IdleVerdict /\ IdleParser /\ IdleMore
IdleApp ==
    /\ ML_AVAILABLE = FALSE /\ processing_tracking_available = FALSE
    /\ requests = <<>> /\ resumes = <<>>
    /\ active_sessions = <<>> /\ processing_history = <<>> /\ stage_stats = <<>>
\* the state of every specification that came before SpecEducation
IdleOld ==
    /\ IdleTexts /\ IdleSkills /\ IdleBands /\ IdleScore /\ IdleClassify /\ IdleApp
    /\ IdleWeights /\ IdleBonus /\ IdleMatch /\ IdleVerdict /\ IdleParser

InitSkills ==
    /\ sim \in SimChoices
    /\ resume_text \in {r \in ResumeTexts : r.secSkills \subseteq r.textSkills}
    /\ job_description \in JobTexts
    /\ IdleSkills /\ IdleBands /\ IdleScore /\ IdleClassify /\ IdleApp /\ IdlePure

ScoreSkills ==
    /\ skills_result = NoResult
    /\ skills_result' = score_skills(resume_text, job_description)
    /\ UNCHANGED <<textVars, resume_b, skills_result_b, bandVars, scoreVars, classifyVars, appVars, pureVars>>

\* One more skill s is written into the resume: in its body or into its
\* skills section.
WriteSkill(text, s, place) ==
    [text EXCEPT !.textSkills = @ \cup {s},
                 !.secSkills = CASE place = "body" -> @
                                 [] place = "section" -> @ \cup {s}]

Places == {"body", "section"}

AddSkill ==
    /\ skills_result # NoResult
    /\ resume_b = NoText
    /\ \E s \in VaryingSkills \ resume_text.textSkills, place \in Places :
         /\ \E i \in 1..Len(RequiredSkills(job_description)) :
                Similar(RequiredSkills(job_description)[i], s)
         /\ resume_b' = WriteSkill(resume_text, s, place)
         /\ skills_result_b' = score_skills(resume_b', job_description)
    /\ UNCHANGED <<textVars, skills_result, bandVars, scoreVars, classifyVars, appVars, pureVars>>

NextSkills == ScoreSkills \/ AddSkill

SpecSkills == InitSkills /\ [][NextSkills]_vars

(***************************************************************************)
(* SpecBands: the scaling of lines 492-508 for every pair of list lengths  *)
(* that extract_skills and find_matching_skills can hand to it.            *)
(***************************************************************************)
InitBands ==
    /\ band_required \in 0..SkillCap
    /\ band_matched \in 0..band_required
    /\ band_score = NoResult
    /\ IdleTexts /\ IdleSkills /\ IdleScore /\ IdleClassify /\ IdleApp /\ IdlePure

ScaleSkills ==
    /\ band_score = NoResult
    /\ band_score' = SkillsScoreOf(band_matched, band_required)
    /\ UNCHANGED <<band_matched, band_required, textVars, skillsVars, scoreVars, classifyVars, appVars, pureVars>>

NextBands == ScaleSkills

SpecBands == InitBands /\ [][NextBands]_vars

(***************************************************************************)
(* SpecScore: score_resume of ats_components, the experience path of       *)
(* ats_engine_new and the integer overall score of analyze_resume, on      *)
(* resumes put together from a preamble and three optional sections.       *)
(***************************************************************************)
PadWords == 60          \* the words of other prose in a long resume

Preambles == {<<>>, <<"Name">>, <<"Name", "SKILLS">>, <<"Prose">>}
ExperienceParts ==
    {<<>>,
     <<"JobHeader", "DateLine">>,
     <<"EXPERIENCE", "Bullet", "Prose">>,
     <<"EXPERIENCE", "JobHeader", "DateLine", "Bullet">>,
     <<"EXPERIENCE", "JobHeader", "DateLine", "Bullet", "JobHeader", "Bullet">>}
EducationParts == {<<>>, <<"EDUCATION", "School">>, <<"EDUCATION", "Institute", "PhD">>}
ProjectParts ==
    {<<>>,
     <<"PROJECTS", "ProjTitle", "Bullet", "ProjPlain">>,
     <<"PROJECTS", "ProjRich", "ProjTitle">>}
ScoreLines ==
    {a \o b \o c \o d : a \in Preambles, b \in ExperienceParts,
                        c \in EducationParts, d \in ProjectParts}

ContactChoices ==
    {[email |-> FALSE, phone |-> FALSE, linkedin |-> FALSE, github |-> FALSE],
     [email |-> TRUE, phone |-> FALSE, linkedin |-> FALSE, github |-> FALSE],
     [email |-> TRUE, phone |-> TRUE, linkedin |-> TRUE, github |-> TRUE]}

\* the lines that hold the first five taxonomy skills need the resume to hold them
ScoreResumes ==
    {[lines |-> l, filler |-> f, textSkills |-> t, secSkills |-> {}, expSkills |-> e,
      words |-> <<>>, email |-> c.email, phone |-> c.phone, linkedin |-> c.linkedin,
      github |-> c.github, pad |-> p] :
        l \in ScoreLines, f \in BOOLEAN, t \in {{}, VaryingSkills},
        e \in {{}, VaryingSkills}, c \in ContactChoices, p \in {0, PadWords}}

WellFormed(text) ==
    /\ text.expSkills \subseteq text.textSkills
    /\ text.expSkills # {} => "JobHeader" \in RangeOf(text.lines)
    /\ "ProjRich" \in RangeOf(text.lines) => text.filler

ScoreJobs ==
    {MkText(FALSE, {}, {}, <<>>), MkText(FALSE, {}, {}, <<StopWord>>),
     MkText(FALSE, {}, {}, <<1001>>), MkText(FALSE, {NumFiller + 1}, {}, <<>>),
     MkText(FALSE, VaryingSkills, {}, <<>>)}

ScoreSims == {{}, {{1001, NumFiller + 1}}}

InitScore ==
    /\ sim \in ScoreSims
    /\ resume_text \in {r \in ScoreResumes : WellFormed(r)}
    /\ job_description \in ScoreJobs
    /\ IdleSkills /\ IdleBands /\ IdleScore /\ IdleClassify /\ IdleApp /\ IdlePure

ExtractExperience ==
    /\ extracted_experience = NoResult
    /\ extracted_experience' = [error |-> "none", entries |-> extract_experience(resume_text)]
    /\ UNCHANGED <<textVars, skillsVars, bandVars, score_result, engine_result,
                   overall_score_int, classifyVars, appVars, pureVars>>

ScoreResume ==
    /\ score_result = NoResult
    /\ score_result' = score_resume(resume_text, job_description)
    /\ UNCHANGED <<textVars, skillsVars, bandVars, extracted_experience, engine_result,
                   overall_score_int, classifyVars, appVars, pureVars>>

\* analyze_resume, lines 1298-1308: the truncated mean of the six section scores
OverallScoreInt(scores) ==
    LET total == RAdd(RAdd(RAdd(RAdd(RAdd(scores.education_score, scores.experience_score),
                                     scores.format_score),
                                scores.header_score),
                           scores.projects_score),
                      scores.skills_score)
        mean == RMul(total, Rat(1, 6))
    IN  mean.n \div mean.d

DeriveOverall ==
    /\ score_result # NoResult
    /\ score_result.error = "none"
    /\ overall_score_int = NoResult
    /\ overall_score_int' = [error |-> "none", value |-> OverallScoreInt(score_result)]
    /\ UNCHANGED <<textVars, skillsVars, bandVars, extracted_experience, score_result,
                   engine_result, classifyVars, appVars, pureVars>>

\* ATSResumeAnalyzer.analyze_resume, as far as the experience section goes
EngineAnalyze ==
    /\ engine_result = NoResult
    /\ LET found == engine_extract_experience(resume_text)
       IN  engine_result' = [error |-> "none", experience |-> found,
                             experience_score |-> engine_score_experience(found)]
    /\ UNCHANGED <<textVars, skillsVars, bandVars, extracted_experience, score_result,
                   overall_score_int, classifyVars, appVars, pureVars>>

NextScore == ExtractExperience \/ ScoreResume \/ DeriveOverall \/ EngineAnalyze

SpecScore == InitScore /\ [][NextScore]_vars

(***************************************************************************)
(* SpecClassify: classify_resume on scores between 0 and 100.              *)
(***************************************************************************)
ScoreGrain == 1000      \* the scores next to a threshold are 1/ScoreGrain away from it
ClassifyScores ==
    {ToR(k) : k \in 0..100}
      \cup {Rat(t * ScoreGrain + d, ScoreGrain) : t \in {50, 70}, d \in {-1, 1}}

\* classify_resume with "<= 70" for "< 70"
classify_resume_inclusive(score) ==
    IF RLt(score, ToR(50)) THEN "No Fit"
    ELSE IF RLe(score, ToR(70)) THEN "Potential Fit"
    ELSE "Good Fit"

\* classify_resume: the label of the pair it returns
classify_resume(score) ==
    IF RLt(score, ToR(50)) THEN "No Fit"
    ELSE IF RLt(score, ToR(70)) THEN "Potential Fit"
    ELSE "Good Fit"

InitClassify ==
    /\ overall_score \in ClassifyScores
    /\ classification = "none"
    /\ IdleTexts /\ IdleSkills /\ IdleBands /\ IdleScore /\ IdleApp /\ IdlePure

Classify ==
    /\ classification = "none"
    /\ classification' = classify_resume(overall_score)
    /\ UNCHANGED <<overall_score, textVars, skillsVars, bandVars, scoreVars, appVars, pureVars>>

NextClassify == Classify

SpecClassify == InitClassify /\ [][NextClassify]_vars

(***************************************************************************)
(* The weighted overall score of the three scorers, on six section scores  *)
(* between 0 and 100: SpecWeights.                                         *)
(***************************************************************************)
WeightSteps == 3        \* the section scores are the multiples of 100/WeightSteps
SectionScores == {Rat(100 * i, WeightSteps) : i \in 0..WeightSteps}

InitWeights ==
    /\ six_scores \in [1..6 -> SectionScores]
    /\ weighted_overall = NoResult
    /\ IdleTexts /\ IdleSkills /\ IdleBands /\ IdleScore /\ IdleClassify /\ IdleApp
    /\ IdleBonus /\ IdleMatch /\ IdleVerdict /\ IdleParser /\ IdleMore

\* the overall_score of ATSScorer.score_resume before its bonus (698-705), of
\* ATSResumeAnalyzer.analyze_resume (63-70) and of the fallback ATSScorer
\* (199-202), each for the six scores in its own order
WeighScores ==
    /\ weighted_overall = NoResult
    /\ weighted_overall' = [error |-> "none",
                            scorer |-> WeightedSum(six_scores, ScorerWeights),
                            engine |-> WeightedSum(six_scores, EngineWeights),
                            fallback |-> Round1(WeightedSum(six_scores, FallbackWeights))]
    /\ UNCHANGED <<six_scores, textVars, skillsVars, bandVars, scoreVars, classifyVars, appVars,
                   bonusVars, matchVars, verdictVars, parserVars, moreVars>>

NextWeights == WeighScores

SpecWeights == InitWeights /\ [][NextWeights]_vars

(***************************************************************************)
(* find_matching_skills of ats_components and match_skills of the fallback *)
(* on lists of skills: SpecMatch.                                          *)
(***************************************************************************)
MaxResumeSkills == 2    \* longest list of resume skills
MaxRequired == 3        \* longest list of required skills
\* 'python', 'java', 'javascript' and 'Python '
MatchTokens == {1, 2, 3, RawPython}
SeqsUpTo(S, n) == UNION {[1..k -> S] : k \in 0..n}
\* the embedding model rates no pair above 0.7, or 'java' and 'javascript',
\* or 'Python ' and 'javascript'
MatchSims == {{}, {{2, 3}}, {{RawPython, 3}}}
Reverse(q) == [i \in 1..Len(q) |-> q[Len(q) + 1 - i]]

InitMatch ==
    /\ sim \in MatchSims
    /\ resume_text = NoText /\ job_description = NoText
    /\ resume_skill_list \in SeqsUpTo(MatchTokens, MaxResumeSkills)
    /\ required_skill_list \in SeqsUpTo(MatchTokens, MaxRequired)
    /\ matching = NoResult /\ matching_reordered = NoResult /\ fallback_matching = NoResult
    /\ IdleSkills /\ IdleBands /\ IdleScore /\ IdleClassify /\ IdleApp
    /\ IdleWeights /\ IdleBonus /\ IdleVerdict /\ IdleParser /\ IdleMore

MatchSkills ==
    /\ matching = NoResult
    /\ matching' = find_matching_skills(resume_skill_list, required_skill_list)
    /\ UNCHANGED <<resume_skill_list, required_skill_list, matching_reordered, fallback_matching,
                   textVars, skillsVars, bandVars, scoreVars, classifyVars, appVars, weightVars,
                   bonusVars, verdictVars, parserVars, moreVars>>

MatchReordered ==
    /\ matching_reordered = NoResult
    /\ matching_reordered' = find_matching_skills(Reverse(resume_skill_list), required_skill_list)
    /\ UNCHANGED <<resume_skill_list, required_skill_list, matching, fallback_matching,
                   textVars, skillsVars, bandVars, scoreVars, classifyVars, appVars, weightVars,
                   bonusVars, verdictVars, parserVars, moreVars>>

FallbackMatch ==
    /\ fallback_matching = NoResult
    /\ fallback_matching' = fallback_match_skills(resume_skill_list, required_skill_list)
    /\ UNCHANGED <<resume_skill_list, required_skill_list, matching, matching_reordered,
                   textVars, skillsVars, bandVars, scoreVars, classifyVars, appVars, weightVars,
                   bonusVars, verdictVars, parserVars, moreVars>>

NextMatch == MatchSkills \/ MatchReordered \/ FallbackMatch

SpecMatch == InitMatch /\ [][NextMatch]_vars

(***************************************************************************)
(* Lines 698-738 of ATSScorer.score_resume on section results next to the  *)
(* thresholds of its bonus: SpecBonus.                                     *)
(***************************************************************************)
\* the section scores just below a threshold, at it, and at the top
BonusGrain == 10        \* the scores below a threshold are 1/BonusGrain away from it
Around(t) == {Rat(t * BonusGrain - 1, BonusGrain), ToR(t), ToR(100)}
\* matched_count and missing_count: no required skill, 2 of 3, 7 of 10, 3 of 3
MatchCounts == {<<0, 0>>, <<2, 1>>, <<7, 3>>, <<3, 0>>}
EntryCounts == {1, 2}
BonusInputs ==
    {[matched_count |-> c[1], missing_count |-> c[2], skills_score |-> sk,
      header_score |-> o, experience_score |-> ex, projects_score |-> pr,
      education_score |-> o, format_score |-> fo, n_experience |-> ne, n_projects |-> np] :
        c \in MatchCounts, sk \in Around(80), ex \in Around(65), pr \in Around(60),
        o \in {ToR(0), ToR(100)}, fo \in {ToR(0), ToR(100)},
        ne \in EntryCounts, np \in EntryCounts}

InitBonus ==
    /\ bonus_input \in BonusInputs
    /\ bonus_result = NoResult
    /\ IdleTexts /\ IdleSkills /\ IdleBands /\ IdleScore /\ IdleClassify /\ IdleApp
    /\ IdleWeights /\ IdleMatch /\ IdleVerdict /\ IdleParser /\ IdleMore

\* score_resume from line 698 on
ApplyBonus ==
    /\ bonus_result = NoResult
    /\ bonus_result' =
          CombineScores([error |-> "none", score |-> bonus_input.skills_score,
                         matched |-> <<>>, missing |-> <<>>,
                         matched_count |-> bonus_input.matched_count,
                         missing_count |-> bonus_input.missing_count],
                        bonus_input.header_score, bonus_input.experience_score,
                        bonus_input.projects_score, bonus_input.education_score,
                        bonus_input.format_score,
                        [i \in 1..bonus_input.n_experience |-> <<>>],
                        [i \in 1..bonus_input.n_projects |-> <<>>])
    /\ UNCHANGED <<bonus_input, textVars, skillsVars, bandVars, scoreVars, classifyVars, appVars,
                   weightVars, matchVars, verdictVars, parserVars, moreVars>>

NextBonus == ApplyBonus

SpecBonus == InitBonus /\ [][NextBonus]_vars

(***************************************************************************)
(* processing_tracker.ProcessingTimeTracker.  Its three containers are     *)
(* handled as one record [active, history, stats]; every method runs under *)
(* the tracker's lock and is one step.                                     *)
(***************************************************************************)
StageNames ==
    {"text_extraction", "resume_parsing", "contact_extraction", "resume_scoring",
     "database_save"}
max_history == 1000

NoStages == [st \in StageNames |-> "none"]
NoStats == [st \in StageNames |-> [count |-> 0, success_count |-> 0, error_count |-> 0]]

\* ProcessingTimeTracker.start_session
start_session(tracker, session_id, filename) ==
    [tracker EXCEPT !.active =
        [k \in DOMAIN tracker.active \cup {session_id} |->
            IF k = session_id THEN [filename |-> filename, stages |-> NoStages]
            ELSE tracker.active[k]]]

\* ProcessingTimeTracker.end_session
end_session(tracker, session_id, success, error) ==
    IF session_id \in DOMAIN tracker.active
    THEN LET history_record == [session_id |-> session_id,
                                filename |-> tracker.active[session_id].filename,
                                stages |-> tracker.active[session_id].stages,
                                success |-> success, error |-> error]
             appended == Append(tracker.history, history_record)
         IN  [tracker EXCEPT
                !.history = IF Len(appended) > max_history THEN Tail(appended) ELSE appended,
                !.active = [k \in DOMAIN tracker.active \ {session_id} |-> tracker.active[k]]]
    ELSE tracker

\* ProcessingTimeTracker.record_stage_time
record_stage_time(tracker, session_id, stage_name, success) ==
    LET counted == [tracker EXCEPT
                      !.stats[stage_name].count = @ + 1,
                      !.stats[stage_name].success_count = IF success THEN @ + 1 ELSE @,
                      !.stats[stage_name].error_count = IF success THEN @ ELSE @ + 1]
    IN  IF session_id \in DOMAIN tracker.active
        THEN [counted EXCEPT !.active[session_id].stages[stage_name] =
                                IF success THEN "ok" ELSE "failed"]
        ELSE counted

\* ProcessingTimeTracker.get_recent_sessions: list(...)[-limit:], which is
\* the whole list for limit = 0, then the summaries in reverse.  A stage is
\* in record['stages'] once it was recorded.
LastOf(history, n) ==
    IF n = 0 \/ n >= Len(history) THEN history
    ELSE SubSeq(history, Len(history) - n + 1, Len(history))
SessionSummary(record) ==
    [session_id |-> record.session_id, filename |-> record.filename,
     success |-> record.success, error |-> record.error,
     stage_count |-> Cardinality({st \in StageNames : record.stages[st] # "none"})]
get_recent_sessions(tracker, n) ==
    LET recent == LastOf(tracker.history, n)
    IN  [i \in 1..Len(recent) |-> SessionSummary(recent[Len(recent) + 1 - i])]

(***************************************************************************)
(* app.py: the /analyze route.  A filename is the sequence of its parts    *)
(* between dots, so "resume.PDF" is <<"resume", "PDF">> and a name without *)
(* a dot has one part.                                                     *)
(***************************************************************************)
NumRequests == 2        \* requests whose handling may overlap
NumSessionIds == 2      \* distinct (millisecond, address) pairs the requests can fall on

Requests == 1..NumRequests
SessionIds == 1..NumSessionIds

ALLOWED_EXTENSIONS == {"pdf", "docx"}

\* str.lower on a part
Lower(part) == CASE part = "PDF" -> "pdf" [] part = "Docx" -> "docx" [] OTHER -> part

LastPart(filename) == filename[Len(filename)]

\* allowed_file that only asks for a dot
allowed_file_any(filename) == Len(filename) > 1

\* allowed_file
allowed_file(filename) == Len(filename) > 1 /\ Lower(LastPart(filename)) \in ALLOWED_EXTENSIONS

\* werkzeug's secure_filename on names of plain letters: dots at either end go
RECURSIVE StripDots(_)
StripDots(filename) ==
    IF filename = <<>> THEN filename
    ELSE IF Head(filename) = "" THEN StripDots(Tail(filename))
    ELSE IF LastPart(filename) = "" THEN StripDots(SubSeq(filename, 1, Len(filename) - 1))
    ELSE filename
secure_filename(filename) == StripDots(filename)

NoFileMsg == "No file uploaded"
NoNameMsg == "No file selected"
InvalidTypeMsg == "Invalid file type. Please upload PDF or DOCX"
NoJobMsg == "Job description is required"
EmptyContentMsg == "Could not extract text from file. File might be empty or corrupted."
NoParseMethodError == "'ResumeParser' object has no attribute 'parse_resume'"

\* f'An error occurred: {str(e)}'
AnErrorOccurred(exception) ==
    IF exception = NoParseMethodError
    THEN "An error occurred: 'ResumeParser' object has no attribute 'parse_resume'"
    ELSE "An error occurred: division by zero"

\* extract_text_from_file: the bytes are read by the library the extension
\* names, which raises on bytes of another format
extract_text_from_file(upload) ==
    LET extension == IF Len(upload.filename) > 1 THEN Lower(LastPart(upload.filename)) ELSE ""
    IN  IF extension = "pdf"
        THEN (IF upload.content.format = "pdf"
              THEN [error |-> "none", text |-> upload.content.text]
              ELSE [error |-> "Error reading PDF"])
        ELSE IF extension = "docx"
        THEN (IF upload.content.format = "docx"
              THEN [error |-> "none", text |-> upload.content.text]
              ELSE [error |-> "Error reading DOCX"])
        ELSE [error |-> "Unsupported file format"]

NoAverage == [none |-> TRUE]

RECURSIVE SumScores(_)
SumScores(rows) == IF rows = <<>> THEN 0 ELSE Head(rows).overall_score + SumScores(Tail(rows))

\* calculate_average_score
calculate_average_score(rows) ==
    IF rows = <<>> \/ SumScores(rows) = 0 THEN NoAverage
    ELSE [none |-> FALSE, value |-> Rat(SumScores(rows), Len(rows))]

\* generate_verdict.  The verdict is the sentences it joins, each as what it
\* says: the score and class it quotes, the skills it names (none: no such
\* sentence) and whether '...' follows them, the sections it lists for
\* improvement (none: no such sentence), the contact sentence and the closing
\* recommendation.  overall_score is the integer analyze_resume has put into
\* score_result.
Sections == <<"skills", "experience", "education", "format", "header", "projects">>
SectionScore(score_result_, s) ==
    CASE s = "skills" -> score_result_.skills_score
      [] s = "experience" -> score_result_.experience_score
      [] s = "education" -> score_result_.education_score
      [] s = "format" -> score_result_.format_score
      [] s = "header" -> score_result_.header_score
      [] s = "projects" -> score_result_.projects_score
Recommendation_strict(overall_score_) ==
    IF overall_score_ > 70 THEN "Recommended for further consideration."
    ELSE IF overall_score_ > 50 THEN "Consider with additional screening."
    ELSE "Not recommended for this position."
Recommendation(overall_score_) ==
    IF overall_score_ >= 70 THEN "Recommended for further consideration."
    ELSE IF overall_score_ >= 50 THEN "Consider with additional screening."
    ELSE "Not recommended for this position."
generate_verdict(score_result_, classification_, contact_info) ==
    [overall_score |-> score_result_.overall_score,
     classification |-> classification_,
     matched_skills |-> Prefix(score_result_.matched_skills, 3),
     matched_more |-> Len(score_result_.matched_skills) > 3,
     missing_skills |-> Prefix(score_result_.missing_skills, 3),
     missing_more |-> Len(score_result_.missing_skills) > 3,
     low_sections |-> SelectSeq(Sections, LAMBDA sec : RLt(SectionScore(score_result_, sec), ToR(60))),
     contact |-> IF contact_info.email /\ contact_info.phone
                 THEN "Complete contact information provided."
                 ELSE "Missing contact information (email or phone).",
     recommendation |-> Recommendation(score_result_.overall_score)]

\* save_resume_data, lines 889-910: the row of the resumes table
save_resume_data(score_result_, contact_info) ==
    [overall_score |-> score_result_.overall_score,
     classification |-> classify_resume(ToR(score_result_.overall_score)),
     verdict |-> generate_verdict(score_result_,
                                  classify_resume(ToR(score_result_.overall_score)),
                                  contact_info)]

\* the module-level ats_scorer: of ats_components if its import succeeded
ats_scorer_score_resume(resume_text_, job_description_) ==
    IF ML_AVAILABLE THEN score_resume(resume_text_, job_description_)
    ELSE fallback_score_resume(resume_text_, job_description_)

(***************************************************************************)
(* Spec: requests to /analyze, handled by threads that interleave between  *)
(* the stages of the handler; a step is one stage together with the        *)
(* tracker calls the handler makes around it.  A request is                *)
(*   pc            : "received", then the name of the last call made,      *)
(*                   "done" once the response is returned                  *)
(*   upload        : the form sent: has_file, filename, content, job       *)
(*   session_id    : the id built from the clock and the client address    *)
(*   started       : start_session was called for it                       *)
(*   steps         : the stage bodies entered, in order                    *)
(*   end_calls     : the end_session calls made for it, in order           *)
(*   response      : [status, error, result], status 0 until returned      *)
(***************************************************************************)
NoResponse == [status |-> 0, error |-> "", result |-> NoResult]

NewRequest ==
    [pc |-> "received", upload |-> NoResult, session_id |-> 0, filename |-> <<>>,
     started |-> FALSE, steps |-> <<>>, end_calls |-> <<>>, resume_text |-> NoText,
     parsed_resume |-> NoResult, contact_info |-> NoResult, score_result |-> NoResult,
     overall_score_int |-> -1, classification |-> "none", average_score |-> NoAverage,
     resume_id |-> 0, response |-> NoResponse]

Tracker == [active |-> active_sessions, history |-> processing_history, stats |-> stage_stats]

SetTracker(tracker) ==
    /\ active_sessions' = tracker.active
    /\ processing_history' = tracker.history
    /\ stage_stats' = tracker.stats

\* "if processing_tracking_available: with processing_tracker.track_stage(...)"
TrackStage(tracker, session_id, stage_name, success) ==
    IF processing_tracking_available
    THEN record_stage_time(tracker, session_id, stage_name, success)
    ELSE tracker

\* "if processing_tracking_available: processing_tracker.end_session(...)"
EndSession(tracker, session_id, success, error) ==
    IF processing_tracking_available
    THEN end_session(tracker, session_id, success, error)
    ELSE tracker

EndCall(req, success, error) ==
    IF processing_tracking_available
    THEN [req EXCEPT !.end_calls = Append(@, [success |-> success, error |-> error])]
    ELSE req

\* return jsonify({'error': ...}), status
Respond(req, status, error) ==
    [req EXCEPT !.pc = "done",
                !.response = [status |-> status, error |-> error, result |-> NoResult]]

\* the except clause of analyze_resume
Failed(req, exception) ==
    Respond(EndCall(req, FALSE, exception), 500, AnErrorOccurred(exception))

\* lines 1213-1245: the checks of the upload, then start_session
Begin(r, upload, session_id) ==
    /\ requests[r].pc = "received"
    /\ \A q \in 1..(r - 1) : requests[q].pc # "received"
    /\ LET req == [requests[r] EXCEPT !.upload = upload, !.session_id = session_id]
           filename == secure_filename(upload.filename)
       IN  IF ~upload.has_file
           THEN /\ requests' = [requests EXCEPT ![r] = Respond(req, 400, NoFileMsg)]
                /\ UNCHANGED trackerVars
           ELSE IF upload.filename = <<"">>
           THEN /\ requests' = [requests EXCEPT ![r] = Respond(req, 400, NoNameMsg)]
                /\ UNCHANGED trackerVars
           ELSE IF ~allowed_file(upload.filename)
           THEN /\ requests' = [requests EXCEPT ![r] = Respond(req, 400, InvalidTypeMsg)]
                /\ UNCHANGED trackerVars
           ELSE /\ requests' = [requests EXCEPT ![r] =
                                  [req EXCEPT !.pc = "start_session", !.filename = filename,
                                              !.started = processing_tracking_available]]
                /\ SetTracker(IF processing_tracking_available
                              THEN start_session(Tracker, session_id, filename)
                              ELSE Tracker)
    /\ UNCHANGED <<textVars, skillsVars, bandVars, scoreVars, classifyVars,
                   ML_AVAILABLE, processing_tracking_available, resumes, pureVars>>

\* lines 1247-1271: the job description check, then the text_extraction stage
ExtractText(r) ==
    /\ requests[r].pc = "start_session"
    /\ LET req == requests[r]
           sid == req.session_id
           extracted == extract_text_from_file(req.upload)
           entered == [req EXCEPT !.steps = Append(@, "text_extraction")]
           staged == TrackStage(Tracker, sid, "text_extraction", extracted.error = "none")
       IN  IF IsBlank(req.upload.job_description)
           THEN /\ requests' = [requests EXCEPT ![r] =
                                  Respond(EndCall(req, FALSE, NoJobMsg), 400, NoJobMsg)]
                /\ SetTracker(EndSession(Tracker, sid, FALSE, NoJobMsg))
           ELSE IF extracted.error # "none"
           THEN /\ requests' = [requests EXCEPT ![r] =
                                  Respond(EndCall(entered, FALSE, extracted.error),
                                          400, extracted.error)]
                /\ SetTracker(EndSession(staged, sid, FALSE, extracted.error))
           ELSE IF IsBlank(extracted.text)
           THEN /\ requests' = [requests EXCEPT ![r] =
                                  Respond(EndCall(entered, FALSE, EmptyContentMsg),
                                          400, EmptyContentMsg)]
                /\ SetTracker(EndSession(staged, sid, FALSE, EmptyContentMsg))
           ELSE /\ requests' = [requests EXCEPT ![r] =
                                  [entered EXCEPT !.pc = "text_extraction",
                                                  !.resume_text = extracted.text]]
                /\ SetTracker(staged)
    /\ UNCHANGED <<textVars, skillsVars, bandVars, scoreVars, classifyVars,
                   ML_AVAILABLE, processing_tracking_available, resumes, pureVars>>

\* lines 1273-1278: the resume_parsing stage.  ResumeParser of ats_components
\* has no parse_resume, so with ML_AVAILABLE the call raises AttributeError
ParseResume(r) ==
    /\ requests[r].pc = "text_extraction"
    /\ LET req == requests[r]
           sid == req.session_id
           staged == TrackStage(Tracker, sid, "resume_parsing", ~ML_AVAILABLE)
       IN  IF ML_AVAILABLE
           THEN /\ requests' = [requests EXCEPT ![r] = Failed(req, NoParseMethodError)]
                /\ SetTracker(EndSession(staged, sid, FALSE, NoParseMethodError))
           ELSE /\ requests' = [requests EXCEPT ![r] =
                                  [req EXCEPT !.pc = "resume_parsing",
                                              !.steps = Append(@, "resume_parsing"),
                                              !.parsed_resume =
                                                  fallback_parse_resume(req.resume_text)]]
                /\ SetTracker(staged)
    /\ UNCHANGED <<textVars, skillsVars, bandVars, scoreVars, classifyVars,
                   ML_AVAILABLE, processing_tracking_available, resumes, pureVars>>

\* lines 1280-1285: the contact_extraction stage
ExtractContact(r) ==
    /\ requests[r].pc = "resume_parsing"
    /\ requests' = [requests EXCEPT ![r] =
                      [@ EXCEPT !.pc = "contact_extraction",
                                !.steps = Append(@, "contact_extraction"),
                                !.contact_info =
                                    fallback_extract_contact_info(requests[r].resume_text)]]
    /\ SetTracker(TrackStage(Tracker, requests[r].session_id, "contact_extraction", TRUE))
    /\ UNCHANGED <<textVars, skillsVars, bandVars, scoreVars, classifyVars,
                   ML_AVAILABLE, processing_tracking_available, resumes, pureVars>>

\* lines 1298-1317 with line 1317 putting the truncated overall score of the
\* scorer itself into score_result
Scored_unsynced(req, scored, rows) ==
    [req EXCEPT !.pc = "resume_scoring",
                !.steps = Append(@, "resume_scoring"),
                !.score_result = [scored EXCEPT !.overall_score = @.n \div @.d],
                !.overall_score_int = OverallScoreInt(scored),
                !.classification = classify_resume(ToR(OverallScoreInt(scored))),
                !.average_score = calculate_average_score(rows)]

\* lines 1298-1317: the integer overall score, its class and the average of
\* the stored scores, once score_resume has returned
Scored(req, scored, rows) ==
    [req EXCEPT !.pc = "resume_scoring",
                !.steps = Append(@, "resume_scoring"),
                !.score_result = [scored EXCEPT !.overall_score = OverallScoreInt(scored)],
                !.overall_score_int = OverallScoreInt(scored),
                !.classification = classify_resume(ToR(OverallScoreInt(scored))),
                !.average_score = calculate_average_score(rows)]

\* lines 1287-1292 and what follows of the handler for the result scored
AfterScoring(r, scored) ==
    IF scored.error # "none"
    THEN /\ requests' = [requests EXCEPT ![r] =
                           Failed([@ EXCEPT !.steps = Append(@, "resume_scoring")],
                                  scored.error)]
         /\ SetTracker(EndSession(TrackStage(Tracker, requests[r].session_id,
                                             "resume_scoring", FALSE),
                                  requests[r].session_id, FALSE, scored.error))
    ELSE /\ requests' = [requests EXCEPT ![r] = Scored(@, scored, resumes)]
         /\ SetTracker(TrackStage(Tracker, requests[r].session_id, "resume_scoring", TRUE))

\* lines 1287-1317: the resume_scoring stage and the values derived from it
ScoreUpload(r) ==
    /\ requests[r].pc = "contact_extraction"
    /\ AfterScoring(r, ats_scorer_score_resume(requests[r].resume_text,
                                               requests[r].upload.job_description))
    /\ UNCHANGED <<textVars, skillsVars, bandVars, scoreVars, classifyVars,
                   ML_AVAILABLE, processing_tracking_available, resumes, pureVars>>

\* lines 1358-1389
SuccessResponse(req) ==
    [status |-> 200, error |-> "",
     result |->
       [success |-> TRUE, filename |-> req.filename,
        classification |-> req.classification,
        overall_score |-> req.overall_score_int,
        average_score |-> IF req.average_score.none THEN NoAverage
                          ELSE [none |-> FALSE, value |-> Round1(req.average_score.value)],
        scores |-> [skills |-> Round1(req.score_result.skills_score),
                    header |-> Round1(req.score_result.header_score),
                    experience |-> Round1(req.score_result.experience_score),
                    projects |-> Round1(req.score_result.projects_score),
                    education |-> Round1(req.score_result.education_score),
                    format |-> Round1(req.score_result.format_score)],
        details |-> [matched_skills |-> req.score_result.matched_skills,
                     missing_skills |-> req.score_result.missing_skills,
                     matched_count |-> Len(req.score_result.matched_skills),
                     missing_count |-> Len(req.score_result.missing_skills)],
        contact_info |-> req.contact_info,
        parsed_sections |-> req.parsed_resume,
        resume_length |-> TextLen(req.resume_text)]]

\* lines 1319-1395: the database_save stage, the response and end_session.
\* save_resume_data rolls back and returns None when the database fails
SaveResume(r, committed) ==
    /\ requests[r].pc = "resume_scoring"
    /\ LET req == requests[r]
           sid == req.session_id
           row == save_resume_data(req.score_result, req.contact_info)
           entered == [req EXCEPT !.steps = Append(@, "database_save"),
                                  !.resume_id = IF committed THEN Len(resumes) + 1 ELSE 0]
           answered == [EndCall(entered, TRUE, "") EXCEPT
                          !.pc = "done", !.response = SuccessResponse(req)]
       IN  /\ resumes' = IF committed THEN Append(resumes, row) ELSE resumes
           /\ requests' = [requests EXCEPT ![r] = answered]
           /\ SetTracker(EndSession(TrackStage(Tracker, sid, "database_save", TRUE),
                                    sid, TRUE, ""))
    /\ UNCHANGED <<textVars, skillsVars, bandVars, scoreVars, classifyVars,
                   ML_AVAILABLE, processing_tracking_available, pureVars>>

\* what a client may send
PdfOf(text) == [format |-> "pdf", text |-> text]
DocxOf(text) == [format |-> "docx", text |-> text]
GarbageBytes == [format |-> "garbage", text |-> EmptyText]

ShortResume == [EmptyText EXCEPT !.lines = <<"Name">>]
PlainResume == [EmptyText EXCEPT !.lines = <<"Name", "Prose">>]
FullResume ==
    [EmptyText EXCEPT
       !.lines = <<"Name", "SKILLS", "EXPERIENCE", "JobHeader", "DateLine", "Bullet",
                   "EDUCATION", "Institute", "PhD", "PROJECTS", "ProjRich", "ProjTitle">>,
       !.filler = TRUE, !.textSkills = VaryingSkills, !.email = TRUE, !.phone = TRUE,
       !.linkedin = TRUE, !.github = TRUE, !.pad = PadWords]

BlankJob == EmptyText
KeywordJob == MkText(FALSE, {}, {}, <<1001>>)
SkillsJob == [MkText(TRUE, VaryingSkills, {}, <<1001, 1002>>) EXCEPT !.pad = PadWords]

NoFile == [has_file |-> FALSE, filename |-> <<"">>, content |-> GarbageBytes,
           job_description |-> SkillsJob]

Filenames ==
    {<<"">>, <<"resume">>, <<"resume", "txt">>, <<"resume", "pdf", "exe">>,
     <<"resume", "pdf", "">>, <<"resume", "pdf">>, <<"resume", "PDF">>,
     <<"resume", "Docx">>, <<"", "pdf">>, <<"archive", "tar", "docx">>}

Uploads ==
    {NoFile}
      \cup {[has_file |-> TRUE, filename |-> f, content |-> c, job_description |-> SkillsJob] :
                f \in Filenames, c \in {PdfOf(FullResume), DocxOf(PlainResume)}}
      \cup {[has_file |-> TRUE, filename |-> <<"resume", "pdf">>, content |-> c,
             job_description |-> j] :
                c \in {GarbageBytes, PdfOf(EmptyText), PdfOf(ShortResume),
                       PdfOf(PlainResume), PdfOf(FullResume)},
                j \in {BlankJob, KeywordJob, SkillsJob}}

Init ==
    /\ ML_AVAILABLE \in BOOLEAN
    /\ processing_tracking_available \in BOOLEAN
    /\ requests = [r \in Requests |-> NewRequest]
    /\ resumes = <<>>
    /\ active_sessions = [k \in {} |-> NoResult]
    /\ processing_history = <<>>
    /\ stage_stats = NoStats
    /\ IdleTexts /\ IdleSkills /\ IdleBands /\ IdleScore /\ IdleClassify /\ IdlePure

Next ==
    \E r \in Requests :
        \/ \E upload \in Uploads, session_id \in SessionIds : Begin(r, upload, session_id)
        \/ ExtractText(r)
        \/ ParseResume(r)
        \/ ExtractContact(r)
        \/ ScoreUpload(r)
        \/ \E committed \in BOOLEAN : SaveResume(r, committed)

Spec == Init /\ [][Next]_vars

(***************************************************************************)
(* save_resume_data and generate_verdict on score results next to the      *)
(* thresholds: SpecVerdict.                                                *)
(***************************************************************************)
MaxVerdictSkills == 4   \* longest matched and longest missing list
\* the integer overall scores on both sides of 50 and of 70
VerdictScores == {49, 50, 69, 70}
\* a section score just below 60, and 60
NearSixty == {Rat(60 * BonusGrain - 1, BonusGrain), ToR(60)}
VerdictInputs ==
    {[score_result |->
         [error |-> "none", overall_score |-> o, skills_score |-> sec[1],
          experience_score |-> sec[2], education_score |-> sec[3], format_score |-> sec[4],
          header_score |-> sec[5], projects_score |-> sec[6],
          matched_skills |-> [i \in 1..m |-> i],
          missing_skills |-> [i \in 1..n |-> MaxVerdictSkills + i]],
      contact_info |-> [email |-> e, phone |-> ph, name |-> 0]] :
        o \in VerdictScores, sec \in [1..6 -> NearSixty], m \in 0..MaxVerdictSkills,
        n \in 0..MaxVerdictSkills, e \in BOOLEAN, ph \in BOOLEAN}

InitVerdict ==
    /\ verdict_input \in VerdictInputs
    /\ verdict_row = NoResult
    /\ IdleTexts /\ IdleSkills /\ IdleBands /\ IdleScore /\ IdleClassify /\ IdleApp
    /\ IdleWeights /\ IdleBonus /\ IdleMatch /\ IdleParser /\ IdleMore

\* save_resume_data, lines 889-926
StoreVerdict ==
    /\ verdict_row = NoResult
    /\ verdict_row' = save_resume_data(verdict_input.score_result, verdict_input.contact_info)
    /\ UNCHANGED <<verdict_input, textVars, skillsVars, bandVars, scoreVars, classifyVars,
                   appVars, weightVars, bonusVars, matchVars, parserVars, moreVars>>

NextVerdict == StoreVerdict

SpecVerdict == InitVerdict /\ [][NextVerdict]_vars

(***************************************************************************)
(* The two line-by-line experience parsers on experience sections made of  *)
(* entry headers, date lines and bullets: SpecExperience.                  *)
(***************************************************************************)
MaxEntries == 2         \* most entry headers of a section
MaxBullets == 2         \* most bullets of an entry
DateLines == {"DateLine", "DateEnDash"}
BulletLines == {"Bullet", "BulletYear", "BulletDash"}
\* a header, one date line and up to MaxBullets bullets
EntryBlocks ==
    {<<"JobHeader", d>> \o bs : d \in DateLines, bs \in SeqsUpTo(BulletLines, MaxBullets)}
RECURSIVE Flatten(_)
Flatten(blocks) == IF blocks = <<>> THEN <<>> ELSE Head(blocks) \o Flatten(Tail(blocks))
\* the section is the last of the resume, or an education section follows
ExperienceTexts ==
    {[EmptyText EXCEPT !.lines = <<"Name", "EXPERIENCE">> \o Flatten(blocks) \o after] :
        blocks \in UNION {[1..k -> EntryBlocks] : k \in 1..MaxEntries},
        after \in {<<>>, <<"EDUCATION", "School">>}}

InitExperience ==
    /\ experience_text \in ExperienceTexts
    /\ engine_jobs = NoResult /\ fallback_jobs = NoResult
    /\ IdleTexts /\ IdleSkills /\ IdleBands /\ IdleScore /\ IdleClassify /\ IdleApp
    /\ IdleWeights /\ IdleBonus /\ IdleMatch /\ IdleVerdict /\ IdleMore

EngineParse ==
    /\ engine_jobs = NoResult
    /\ engine_jobs' = [error |-> "none", jobs |-> engine_extract_experience(experience_text)]
    /\ UNCHANGED <<experience_text, fallback_jobs, textVars, skillsVars, bandVars, scoreVars,
                   classifyVars, appVars, weightVars, bonusVars, matchVars, verdictVars, moreVars>>

FallbackParse ==
    /\ fallback_jobs = NoResult
    /\ fallback_jobs' = [error |-> "none", jobs |-> fallback_extract_experience(experience_text)]
    /\ UNCHANGED <<experience_text, engine_jobs, textVars, skillsVars, bandVars, scoreVars,
                   classifyVars, appVars, weightVars, bonusVars, matchVars, verdictVars, moreVars>>

NextExperience == EngineParse \/ FallbackParse

SpecExperience == InitExperience /\ [][NextExperience]_vars

(***************************************************************************)
(* The two line-by-line education parsers on education sections made of    *)
(* institution, degree, date and field lines: SpecEducation.  An entry     *)
(* holds, per field, the line it was read from, or "" for the empty        *)
(* string.                                                                 *)
(***************************************************************************)
DegreeNotSpecified == "Degree not specified"

\* ATSResumeAnalyzer._extract_education of ats_engine_new
EngineIsEducation(line) == line = "EDUCATION"       \* 'education', under 50 long
\* 'experience', 'skills' or 'projects', under 50 long
EngineEndsEducation(line) == line \in {"EXPERIENCE", "SKILLS", "PROJECTS"}
EngineIsDegree(line) == line = "PhD"                \* one of degree_patterns matches
EngineIsInstitution(line) == line \in {"Institute", "School"} /\ ~EngineIsDegree(line)
EngineIsDate(line) == line \in {"GradYear", "DateLine", "DateEnDash"}
EngineIsField(line) == line = "FieldLine"
EngineNewEdu(line) ==
    [institution |-> line, degree |-> "", field_of_study |-> "", graduation_date |-> "",
     gpa |-> ""]

\* the loop of lines 278-334 and the append after it; current_edu is <<>>
\* for None, else <<entry>>.  No line kind holds a GPA.
RECURSIVE EngineEducationLoop(_, _, _, _)
EngineEducationLoop(ls, in_education_section, current_edu, education) ==
    LET line == Head(ls)
        rest == Tail(ls)
    IN  IF ls = <<>> THEN education \o current_edu
        ELSE IF EngineIsEducation(line)
             THEN EngineEducationLoop(rest, TRUE, current_edu, education)
        ELSE IF in_education_section /\ EngineEndsEducation(line)
             THEN (education \o current_edu) \o current_edu     \* append, break, append
        ELSE IF ~(in_education_section /\ LineLen(line) > 3)
             THEN EngineEducationLoop(rest, in_education_section, current_edu, education)
        ELSE IF EngineIsInstitution(line)
             THEN EngineEducationLoop(rest, TRUE, <<EngineNewEdu(line)>>,
                                      education \o current_edu)
        ELSE IF current_edu = <<>>
             THEN EngineEducationLoop(rest, TRUE, current_edu, education)
        ELSE IF EngineIsDegree(line)
             THEN EngineEducationLoop(rest, TRUE, <<[current_edu[1] EXCEPT !.degree = line]>>,
                                      education)
        ELSE IF EngineIsDate(line)
             THEN EngineEducationLoop(rest, TRUE,
                      <<[current_edu[1] EXCEPT !.graduation_date = line]>>, education)
        ELSE IF current_edu[1].field_of_study = "" /\ EngineIsField(line)
             THEN EngineEducationLoop(rest, TRUE,
                      <<[current_edu[1] EXCEPT !.field_of_study = line]>>, education)
        ELSE EngineEducationLoop(rest, TRUE, current_edu, education)

engine_extract_education(text) == Prefix(EngineEducationLoop(text.lines, FALSE, <<>>, <<>>), 3)

\* the fallback ResumeParser._extract_education
FallbackIsEducation(line) == line = "EDUCATION"     \* 'education', under 30 long
\* 'experience', 'projects', 'skills' or 'certifications', under 30 long
FallbackEndsEducation(line) == line \in {"EXPERIENCE", "PROJECTS", "SKILLS"}
\* 'university', 'institute', 'college', 'technology', 'engineering', 'academy', 'school'
FallbackIsInstitution(line) == line \in {"Institute", "School"}
FallbackIsDate(line) == line \in {"GradYear", "DateLine", "DateEnDash"}
\* one of degree_patterns matches, or the line holds a degree keyword
FallbackIsDegree(line) == line = "PhD"
FallbackIsField(line) == line = "FieldLine"
FallbackNewEdu(line) == [institution |-> line, degree |-> "", dates |-> "", field |-> ""]

\* the branch of lines 447-462 for a line that is neither an institution
\* nor a date, with an entry open
FallbackDegreeBranch(edu, line) ==
    IF FallbackIsDegree(line) /\ edu.degree = "" THEN [edu EXCEPT !.degree = line] ELSE edu

\* the branch of lines 465-467, which follows "elif current_edu" and is
\* entered with no entry open only; it stores nothing then
FallbackFieldBranch(current_edu, line) ==
    IF current_edu # <<>> /\ FallbackIsField(line) /\ current_edu[1].field = ""
    THEN <<[current_edu[1] EXCEPT !.field = line]>>
    ELSE current_edu

\* the loop of lines 417-467 and the append after it
RECURSIVE FallbackEducationLoop(_, _, _, _)
FallbackEducationLoop(ls, in_education_section, current_edu, education) ==
    LET line == Head(ls)
        rest == Tail(ls)
    IN  IF ls = <<>> THEN education \o current_edu
        ELSE IF FallbackIsEducation(line)
             THEN FallbackEducationLoop(rest, TRUE, current_edu, education)
        ELSE IF FallbackEndsEducation(line)
             THEN FallbackEducationLoop(rest, FALSE, <<>>, education \o current_edu)
        ELSE IF ~in_education_section
             THEN FallbackEducationLoop(rest, FALSE, current_edu, education)
        ELSE IF FallbackIsInstitution(line)
             THEN FallbackEducationLoop(rest, TRUE, <<FallbackNewEdu(line)>>,
                                        education \o current_edu)
        ELSE IF current_edu # <<>> /\ FallbackIsDate(line)
             THEN FallbackEducationLoop(rest, TRUE, <<[current_edu[1] EXCEPT !.dates = line]>>,
                                        education)
        ELSE IF current_edu # <<>>
             THEN FallbackEducationLoop(rest, TRUE,
                                        <<FallbackDegreeBranch(current_edu[1], line)>>, education)
        ELSE FallbackEducationLoop(rest, TRUE, FallbackFieldBranch(current_edu, line), education)

\* lines 474-481: the degree of a finished entry
FormatDegree(edu) ==
    IF edu.degree = "" /\ edu.field = "" THEN [edu EXCEPT !.degree = DegreeNotSpecified]
    ELSE IF edu.degree # "" /\ edu.field # "" THEN [edu EXCEPT !.degree = "DegreeAndField"]
    ELSE edu

fallback_extract_education(text) ==
    LET education == FallbackEducationLoop(text.lines, FALSE, <<>>, <<>>)
    IN  Prefix([i \in 1..Len(education) |-> FormatDegree(education[i])], 3)

MaxEducationLines == 3  \* most lines under the education heading
EducationLines == {"Institute", "School", "PhD", "GradYear", "FieldLine"}
\* the section is the last of the resume, or a skills section follows
EducationTexts ==
    {[EmptyText EXCEPT !.lines = <<"Name", "EDUCATION">> \o body \o after] :
        body \in SeqsUpTo(EducationLines, MaxEducationLines), after \in {<<>>, <<"SKILLS">>}}

InitEducation ==
    /\ education_text \in EducationTexts
    /\ engine_education = NoResult /\ fallback_education = NoResult
    /\ IdleOld /\ IdleManager /\ IdleRecent /\ IdleCache /\ IdleStats

EngineEducation ==
    /\ engine_education = NoResult
    /\ engine_education' =
          [error |-> "none", education |-> engine_extract_education(education_text)]
    /\ UNCHANGED <<education_text, fallback_education, oldVars, besideEducation>>

FallbackEducation ==
    /\ fallback_education = NoResult
    /\ fallback_education' =
          [error |-> "none", education |-> fallback_extract_education(education_text)]
    /\ UNCHANGED <<education_text, engine_education, oldVars, besideEducation>>

NextEducation == EngineEducation \/ FallbackEducation

SpecEducation == InitEducation /\ [][NextEducation]_vars

(***************************************************************************)
(* The model manager under concurrent callers: SpecModels (requests that   *)
(* need a model) and SpecManager (getters next to clear_model and          *)
(* clear_all_models).  A thread switch can fall between any two reads or   *)
(* writes of _models and _model_stats, so every one of them is a step.     *)
(* A model is [kind, key, gen]: the gen-th object constructed for the key; *)
(* a statistics dict carries the gen of the load that created it, which    *)
(* stands for its identity.                                                *)
(***************************************************************************)
NumThreads == 3         \* threads calling the manager, each once
SentenceKey == "sentence_transformer_all-MiniLM-L6-v2"
TfidfKey == "tfidf_vectorizer"
SkillKey == "skill_extractor"
ModelKeys == {SentenceKey, TfidfKey, SkillKey}
Threads == 1..NumThreads
NoModel == [kind |-> "None"]
Model(key, gen) == [kind |-> "model", key |-> key, gen |-> gen]
KeyError == [kind |-> "KeyError"]
LoadError == [kind |-> "load_error"]
NoResultYet == [kind |-> "running"]

\* d[key] = value, and del d[key]
DictSet(d, key, value) == [k \in DOMAIN d \cup {key} |-> IF k = key THEN value ELSE d[k]]
DictDel(d, key) == [k \in DOMAIN d \ {key} |-> d[k]]

IdleCaller ==
    [pc |-> "idle", op |-> "none", key |-> "none", model |-> NoModel, stats_gen |-> 0,
     usage_count |-> 0, result |-> NoResultYet]

InitManager ==
    /\ _models = <<>> /\ _model_stats = <<>> /\ _lock = 0
    /\ matcher_model = NoModel
    /\ load_count = [k \in ModelKeys |-> 0]
    /\ callers = [t \in Threads |-> IdleCaller]
    /\ IdleOld /\ IdleEducation /\ IdleRecent /\ IdleCache /\ IdleStats

Goto(t, pc) == callers' = [callers EXCEPT ![t].pc = pc]
Return(t, result) == callers' = [callers EXCEPT ![t].pc = "done", ![t].result = result]
\* where a getter goes once the model is in _models: line 170 for the skill
\* extractor, lines 84 and 129 for the other two
AfterLoad(key) == IF key = SkillKey THEN "is_not_none" ELSE "read_count"
\* the import of line 149 fails: ats_components defines no SkillExtractor;
\* the other two constructors may raise
LoadOutcomes(key) == IF key = SkillKey THEN {FALSE} ELSE BOOLEAN

\* a request reaches SemanticMatcher.calculate_similarity of the shared
\* ats_scorer, a Celery task that of a scorer of its own (tasks.py 93), or
\* a getter is called directly, as preload_models does
CallRequest(t, op, key) ==
    /\ callers[t].pc = "idle"
    /\ callers' = [callers EXCEPT ![t].pc = IF op = "calculate_similarity" THEN "model_is_none"
                                             ELSE "check",
                                   ![t].op = op, ![t].key = key]
    /\ UNCHANGED <<_models, _model_stats, _lock, matcher_model, load_count>>
    /\ UNCHANGED <<oldVars, besideManager>>

\* a getter, clear_model(key) or clear_all_models() is called
CallManager(t, op, key) ==
    /\ callers[t].pc = "idle"
    /\ callers' = [callers EXCEPT ![t].pc = IF op = "get" THEN "check" ELSE "acquire",
                                   ![t].op = op, ![t].key = key]
    /\ UNCHANGED <<_models, _model_stats, _lock, matcher_model, load_count>>
    /\ UNCHANGED <<oldVars, besideManager>>

\* calculate_similarity, lines 27-28: "if self.model is None"
ModelIsNone(t) ==
    /\ callers[t].pc = "model_is_none"
    /\ IF matcher_model = NoModel THEN Goto(t, "check") ELSE Return(t, matcher_model)
    /\ UNCHANGED <<_models, _model_stats, _lock, matcher_model, load_count>>
    /\ UNCHANGED <<oldVars, besideManager>>

\* "if model_key not in self._models", outside the lock
GetCheck(t) ==
    /\ callers[t].pc = "check"
    /\ Goto(t, IF callers[t].key \in DOMAIN _models THEN AfterLoad(callers[t].key)
               ELSE "acquire")
    /\ UNCHANGED <<_models, _model_stats, _lock, matcher_model, load_count>>
    /\ UNCHANGED <<oldVars, besideManager>>

\* "with self._lock", of a getter, clear_model or clear_all_models
Acquire(t) ==
    /\ callers[t].pc = "acquire"
    /\ _lock = 0
    /\ _lock' = t
    /\ Goto(t, CASE callers[t].op = "clear_model" -> "del_model"
                 [] callers[t].op = "clear_all_models" -> "clear_models"
                 [] OTHER -> "recheck")
    /\ UNCHANGED <<_models, _model_stats, matcher_model, load_count>>
    /\ UNCHANGED <<oldVars, besideManager>>

\* "if model_key not in self._models", inside the lock
GetRecheck(t) ==
    /\ callers[t].pc = "recheck"
    /\ IF callers[t].key \in DOMAIN _models
       THEN Goto(t, AfterLoad(callers[t].key)) /\ _lock' = 0
       ELSE Goto(t, "load") /\ UNCHANGED _lock
    /\ UNCHANGED <<_models, _model_stats, matcher_model, load_count>>
    /\ UNCHANGED <<oldVars, besideManager>>

\* the constructor call: the model is built, or the exception leaves the
\* with block (sentence transformer, TF-IDF) or is caught and None is the
\* model (skill extractor)
GetLoad(t, loaded) ==
    /\ callers[t].pc = "load"
    /\ loaded \in LoadOutcomes(callers[t].key)
    /\ IF loaded \/ callers[t].key = SkillKey
       THEN /\ load_count' = [load_count EXCEPT ![callers[t].key] = @ + 1]
            /\ callers' = [callers EXCEPT
                              ![t].pc = "store_model",
                              ![t].model = IF loaded
                                           THEN Model(callers[t].key, load_count[callers[t].key] + 1)
                                           ELSE NoModel]
            /\ UNCHANGED _lock
       ELSE /\ Return(t, LoadError)
            /\ _lock' = 0
            /\ UNCHANGED load_count
    /\ UNCHANGED <<_models, _model_stats, matcher_model>>
    /\ UNCHANGED <<oldVars, besideManager>>

\* "self._models[model_key] = model" (or None, line 166)
StoreModel(t) ==
    /\ callers[t].pc = "store_model"
    /\ _models' = DictSet(_models, callers[t].key, callers[t].model)
    /\ Goto(t, "store_stats")
    /\ UNCHANGED <<_model_stats, _lock, matcher_model, load_count>>
    /\ UNCHANGED <<oldVars, besideManager>>

\* "self._model_stats[model_key] = {..., 'usage_count': 0, ...}" and the end
\* of the with block
StoreStats(t) ==
    /\ callers[t].pc = "store_stats"
    /\ _model_stats' =
          DictSet(_model_stats, callers[t].key,
                  [gen |-> load_count[callers[t].key], usage_count |-> 0,
                   error |-> callers[t].model = NoModel])
    /\ Goto(t, AfterLoad(callers[t].key))
    /\ _lock' = 0
    /\ UNCHANGED <<_models, matcher_model, load_count>>
    /\ UNCHANGED <<oldVars, besideManager>>

\* get_skill_extractor, line 170: "if self._models[model_key] is not None"
IsNotNone(t) ==
    /\ callers[t].pc = "is_not_none"
    /\ IF callers[t].key \notin DOMAIN _models THEN Return(t, KeyError)
       ELSE IF _models[callers[t].key] = NoModel THEN Goto(t, "return")
       ELSE Goto(t, "read_count")
    /\ UNCHANGED <<_models, _model_stats, _lock, matcher_model, load_count>>
    /\ UNCHANGED <<oldVars, besideManager>>

\* "self._model_stats[model_key]['usage_count'] += 1", its read: the dict
\* is looked up and its count loaded
ReadCount(t) ==
    /\ callers[t].pc = "read_count"
    /\ IF callers[t].key \notin DOMAIN _model_stats THEN Return(t, KeyError)
       ELSE callers' = [callers EXCEPT
                           ![t].pc = "write_count",
                           ![t].stats_gen = _model_stats[callers[t].key].gen,
                           ![t].usage_count = _model_stats[callers[t].key].usage_count]
    /\ UNCHANGED <<_models, _model_stats, _lock, matcher_model, load_count>>
    /\ UNCHANGED <<oldVars, besideManager>>

\* its write: the count read plus one goes into the dict that was looked
\* up, which may no longer be the one in _model_stats
WriteCount(t) ==
    /\ callers[t].pc = "write_count"
    /\ IF /\ callers[t].key \in DOMAIN _model_stats
          /\ _model_stats[callers[t].key].gen = callers[t].stats_gen
       THEN _model_stats' =
               [_model_stats EXCEPT ![callers[t].key].usage_count = callers[t].usage_count + 1]
       ELSE UNCHANGED _model_stats
    /\ Goto(t, "return")
    /\ UNCHANGED <<_models, _lock, matcher_model, load_count>>
    /\ UNCHANGED <<oldVars, besideManager>>

\* "return self._models[model_key]"; calculate_similarity keeps what it
\* gets in self.model
GetReturn(t) ==
    /\ callers[t].pc = "return"
    /\ IF callers[t].key \notin DOMAIN _models
       THEN Return(t, KeyError) /\ UNCHANGED matcher_model
       ELSE /\ Return(t, _models[callers[t].key])
            /\ matcher_model' = IF callers[t].op = "calculate_similarity"
                                THEN _models[callers[t].key] ELSE matcher_model
    /\ UNCHANGED <<_models, _model_stats, _lock, load_count>>
    /\ UNCHANGED <<oldVars, besideManager>>

\* clear_model, lines 248-250: "if model_key in self._models: del ..."
DelModel(t) ==
    /\ callers[t].pc = "del_model"
    /\ IF callers[t].key \in DOMAIN _models
       THEN /\ _models' = DictDel(_models, callers[t].key)
            /\ Goto(t, "del_stats")
            /\ UNCHANGED _lock
       ELSE /\ Return(t, [kind |-> "False"])
            /\ _lock' = 0
            /\ UNCHANGED _models
    /\ UNCHANGED <<_model_stats, matcher_model, load_count>>
    /\ UNCHANGED <<oldVars, besideManager>>

\* clear_model, lines 251-255
DelStats(t) ==
    /\ callers[t].pc = "del_stats"
    /\ _model_stats' = DictDel(_model_stats, callers[t].key)
    /\ Return(t, [kind |-> "True"])
    /\ _lock' = 0
    /\ UNCHANGED <<_models, matcher_model, load_count>>
    /\ UNCHANGED <<oldVars, besideManager>>

\* clear_all_models, lines 259-260
ClearModels(t) ==
    /\ callers[t].pc = "clear_models"
    /\ _models' = <<>>
    /\ Goto(t, "clear_stats")
    /\ UNCHANGED <<_model_stats, _lock, matcher_model, load_count>>
    /\ UNCHANGED <<oldVars, besideManager>>

\* clear_all_models, lines 261-262
ClearStats(t) ==
    /\ callers[t].pc = "clear_stats"
    /\ _model_stats' = <<>>
    /\ Return(t, NoModel)
    /\ _lock' = 0
    /\ UNCHANGED <<_models, matcher_model, load_count>>
    /\ UNCHANGED <<oldVars, besideManager>>

\* one getter call, step by step
GetterStep(t) ==
    \/ GetCheck(t) \/ Acquire(t) \/ GetRecheck(t) \/ \E loaded \in BOOLEAN : GetLoad(t, loaded)
    \/ StoreModel(t) \/ StoreStats(t) \/ ReadCount(t) \/ WriteCount(t) \/ GetReturn(t)

NextModels ==
    \E t \in Threads :
        \/ CallRequest(t, "calculate_similarity", SentenceKey)
        \/ \E key \in {SentenceKey, TfidfKey} : CallRequest(t, "get", key)
        \/ ModelIsNone(t)
        \/ GetterStep(t)

SpecModels == InitManager /\ [][NextModels]_vars

NextManager ==
    \E t \in Threads :
        \/ \E key \in ModelKeys : CallManager(t, "get", key) \/ CallManager(t, "clear_model", key)
        \/ CallManager(t, "clear_all_models", "none")
        \/ GetterStep(t) \/ IsNotNone(t)
        \/ DelModel(t) \/ DelStats(t) \/ ClearModels(t) \/ ClearStats(t)

SpecManager == InitManager /\ [][NextManager]_vars

(***************************************************************************)
(* get_recent_sessions on histories of ended sessions: SpecRecent.         *)
(***************************************************************************)
MaxHistory == 3         \* most records of the history
MaxLimit == 4           \* largest limit asked for
\* what end_session appends for a session that ended well or failed in
\* text extraction
HistoryRecords ==
    {[session_id |-> sid, filename |-> <<"resume", "pdf">>,
      stages |-> IF success THEN [st \in StageNames |-> "ok"]
                 ELSE [NoStages EXCEPT !["text_extraction"] = "failed"],
      success |-> success, error |-> IF success THEN "" ELSE EmptyContentMsg] :
        sid \in 1..MaxHistory, success \in BOOLEAN}

InitRecent ==
    /\ history_before \in SeqsUpTo(HistoryRecords, MaxHistory)
    /\ limit \in 0..MaxLimit
    /\ recent_sessions = NoResult
    /\ IdleOld /\ IdleEducation /\ IdleManager /\ IdleCache /\ IdleStats

\* GET of the recent sessions, app.py 2201-2204
RecentSessions ==
    /\ recent_sessions = NoResult
    /\ recent_sessions' =
          [error |-> "none",
           sessions |-> get_recent_sessions([active |-> <<>>, history |-> history_before,
                                             stats |-> NoStats], limit)]
    /\ UNCHANGED <<history_before, limit, oldVars, besideRecent>>

NextRecent == RecentSessions

SpecRecent == InitRecent /\ [][NextRecent]_vars

(***************************************************************************)
(* cache_utils: a function decorated with cache_result, called again and   *)
(* again while time passes: SpecCache.  The default cache key is the       *)
(* function name and the MD5 of the arguments; equal arguments give equal  *)
(* keys and the arguments of CacheArgs different ones.  Redis answers      *)
(* every command while the cache is connected.                             *)
(***************************************************************************)
MaxCalls == 3           \* calls of the decorated function
MaxTime == 3            \* the clock stops there
ttl == 2                \* the ttl of the decorator, in clock steps
CacheArgs == {1, 2}
PyNone == [type |-> "NoneType"]
\* what the function may return: None, 0, a string, a tuple, a list
PyValues ==
    {PyNone, [type |-> "int", v |-> 0], [type |-> "str", v |-> 1], [type |-> "tuple", v |-> 1],
     [type |-> "list", v |-> 1]}

\* json.loads(json.dumps(value, default=str)): a tuple comes back as a list
JsonRoundTrip(value) == IF value.type = "tuple" THEN [value EXCEPT !.type = "list"] ELSE value

\* RedisCache._serialize_value; the bytes are told apart by what they decode to
_serialize_value(value, pickled) ==
    IF pickled THEN [pickle |-> TRUE, value |-> value]
    ELSE [pickle |-> FALSE, value |-> JsonRoundTrip(value)]

\* RedisCache._deserialize_value
_deserialize_value(data, pickled) == data.value

\* the key is in Redis and has not expired
Live(key) == key \in DOMAIN redis_data /\ now < redis_data[key].expires

\* RedisCache.get
cache_get(key) ==
    IF ~connected THEN PyNone
    ELSE IF ~Live(key) THEN PyNone
    ELSE _deserialize_value(redis_data[key].data, use_pickle)

\* RedisCache.set: SETEX key ttl value
cache_set(key, value) ==
    IF ~connected THEN redis_data
    ELSE DictSet(redis_data, key,
                 [data |-> _serialize_value(value, use_pickle), expires |-> now + ttl])

InitCache ==
    /\ connected \in BOOLEAN
    /\ use_pickle \in BOOLEAN
    /\ redis_data = <<>>
    /\ now = 0
    /\ calls_made = 0
    /\ last_call = NoResult
    /\ IdleOld /\ IdleEducation /\ IdleManager /\ IdleRecent /\ IdleStats

\* the wrapper of cache_result, lines 121-138: one call with the argument,
\* the function returning `result` if it is executed
CallCached(arg, result) ==
    /\ calls_made < MaxCalls
    /\ LET cached_result == cache_get(arg)
           hit == cached_result # PyNone
       IN  /\ redis_data' = IF hit THEN redis_data ELSE cache_set(arg, result)
           /\ last_call' =
                 [error |-> "none", arg |-> arg,
                  stored |-> connected /\ Live(arg),
                  stored_value |-> IF connected /\ Live(arg)
                                   THEN _deserialize_value(redis_data[arg].data, use_pickle)
                                   ELSE PyNone,
                  executed |-> ~hit,
                  result |-> result,
                  returned |-> IF hit THEN cached_result ELSE result]
    /\ calls_made' = calls_made + 1
    /\ UNCHANGED <<connected, use_pickle, now, oldVars, besideCache>>

\* time passes
Tick ==
    /\ now < MaxTime
    /\ now' = now + 1
    /\ UNCHANGED <<connected, use_pickle, redis_data, calls_made, last_call, oldVars,
                   besideCache>>

NextCache == (\E arg \in CacheArgs, result \in PyValues : CallCached(arg, result)) \/ Tick

SpecCache == InitCache /\ [][NextCache]_vars

(***************************************************************************)
(* The stage statistics with their times: SpecStats.  The times are Python *)
(* floats, whose sums and quotients are rounded to the nearest float, ties *)
(* to even.  A float is modelled with a significand of Precision bits      *)
(* where Python has 53: a natural number of the smallest step, of which at *)
(* most the Precision leading bits are not 0.                              *)
(***************************************************************************)
Precision == 4          \* bits of the significand
NumTrackers == 2        \* threads that run a tracked stage
MaxRecords == 3         \* calls of record_stage_time
MaxClock == 2           \* the clock stops there
TimedStages == {"text_extraction", "resume_parsing"}
Trackers == 1..NumTrackers

RECURSIVE Pow2(_)
Pow2(n) == IF n = 0 THEN 1 ELSE 2 * Pow2(n - 1)

\* the step between the floats around num/den
RECURSIVE Quantum(_, _, _)
Quantum(num, den, q) ==
    IF num < den * q * Pow2(Precision) THEN q ELSE Quantum(num, den, 2 * q)

\* num/den rounded to the nearest float, ties to the even significand
RoundFloat(num, den) ==
    LET q == Quantum(num, den, 1)
        floor == num \div (den * q)
        rest == num % (den * q)
        up == 2 * rest > den * q \/ (2 * rest = den * q /\ floor % 2 = 1)
    IN  (IF up THEN floor + 1 ELSE floor) * q

FloatAdd(a, b) == RoundFloat(a + b, 1)        \* a + b
FloatDiv(a, n) == RoundFloat(a, n)            \* a / n
Infinity == Pow2(2 * Precision)               \* float('inf'): above every time of the model

\* the floats of one binade, and 0
Durations == {0} \cup (Pow2(Precision - 1)..(Pow2(Precision) - 1))

\* the default of stage_stats, lines 32-41
DefaultStats ==
    [count |-> 0, total_time |-> 0, min_time |-> Infinity, max_time |-> 0, avg_time |-> 0,
     success_count |-> 0, error_count |-> 0]

\* record_stage_time, lines 153-165: the statistics of the stage
record_stage_statistics(stats_by_stage, stage_name, duration, success) ==
    LET stats == IF stage_name \in DOMAIN stats_by_stage THEN stats_by_stage[stage_name]
                 ELSE DefaultStats
        total_time == FloatAdd(stats.total_time, duration)
    IN  DictSet(stats_by_stage, stage_name,
                [count |-> stats.count + 1,
                 total_time |-> total_time,
                 min_time |-> IF duration < stats.min_time THEN duration ELSE stats.min_time,
                 max_time |-> IF duration > stats.max_time THEN duration ELSE stats.max_time,
                 avg_time |-> FloatDiv(total_time, stats.count + 1),
                 success_count |-> IF success THEN stats.success_count + 1
                                   ELSE stats.success_count,
                 error_count |-> IF success THEN stats.error_count
                                 ELSE stats.error_count + 1])

NoStageCall == [pc |-> "idle", stage_name |-> "none", start_time |-> 0, outcome |-> "none"]

InitStats ==
    /\ timed_stats = <<>>
    /\ clock = 0
    /\ stage_calls = [t \in Trackers |-> NoStageCall]
    /\ recorded = [st \in TimedStages |-> <<>>]
    /\ IdleOld /\ IdleEducation /\ IdleManager /\ IdleRecent /\ IdleCache

RecordsMade == Len(recorded["text_extraction"]) + Len(recorded["resume_parsing"])

\* the with statement is entered: track_stage, lines 63-68
EnterStage(t, stage_name) ==
    /\ stage_calls[t].pc = "idle"
    /\ stage_calls' = [stage_calls EXCEPT ![t] = [pc |-> "body", stage_name |-> stage_name,
                                                   start_time |-> clock, outcome |-> "none"]]
    /\ UNCHANGED <<timed_stats, clock, recorded, oldVars, besideStats>>

\* the body ends or raises: track_stage, lines 69-85, with record_stage_time
\* under the tracker's lock
LeaveStage(t, raised) ==
    /\ stage_calls[t].pc = "body"
    /\ RecordsMade < MaxRecords
    /\ LET stage_name == stage_calls[t].stage_name
           duration == clock - stage_calls[t].start_time
       IN  /\ timed_stats' = record_stage_statistics(timed_stats, stage_name, duration, ~raised)
           /\ recorded' = [recorded EXCEPT ![stage_name] =
                              Append(@, [duration |-> duration, success |-> ~raised])]
    /\ stage_calls' = [stage_calls EXCEPT ![t].pc = "done",
                                          ![t].outcome = IF raised THEN "raised" ELSE "returned"]
    /\ UNCHANGED <<clock, oldVars, besideStats>>

\* record_stage_time called with a duration of the caller's
RecordStageTime(stage_name, duration, success) ==
    /\ RecordsMade < MaxRecords
    /\ timed_stats' = record_stage_statistics(timed_stats, stage_name, duration, success)
    /\ recorded' = [recorded EXCEPT ![stage_name] =
                       Append(@, [duration |-> duration, success |-> success])]
    /\ UNCHANGED <<clock, stage_calls, oldVars, besideStats>>

ClockTick ==
    /\ clock < MaxClock
    /\ clock' = clock + 1
    /\ UNCHANGED <<timed_stats, stage_calls, recorded, oldVars, besideStats>>

NextStats ==
    \/ \E t \in Trackers, stage_name \in TimedStages : EnterStage(t, stage_name)
    \/ \E t \in Trackers, raised \in BOOLEAN : LeaveStage(t, raised)
    \/ \E duration \in Durations, success \in BOOLEAN :
          RecordStageTime("text_extraction", duration, success)
    \/ ClockTick

SpecStats == InitStats /\ [][NextStats]_vars

(***************************************************************************)
(* Properties.                                                             *)
(***************************************************************************)
InRange(x) == RGe(x, ToR(0)) /\ RLe(x, ToR(100))
ScoreReturned == score_result # NoResult /\ score_result.error = "none"

\* C1: the six section scores that ATSScorer.score_resume returns and its
\* overall_score lie between 0 and 100, and so does the integer overall
\* score analyze_resume derives from the six section scores.
C1_ScoresInRange ==
    /\ ScoreReturned =>
          /\ InRange(score_result.skills_score)
          /\ InRange(score_result.header_score)
          /\ InRange(score_result.experience_score)
          /\ InRange(score_result.projects_score)
          /\ InRange(score_result.education_score)
          /\ InRange(score_result.format_score)
          /\ InRange(score_result.overall_score)
    /\ overall_score_int # NoResult =>
          overall_score_int.value \in 0..100

\* C1, witness: a resume whose weighted sum plus the bonus is cut to 100,
\* with the integer overall score derived
C1_Witness ==
    /\ ScoreReturned
    /\ score_result.overall_score = ToR(100)
    /\ score_result.header_score = ToR(100)
    /\ overall_score_int # NoResult
    /\ overall_score_int.value \in 0..100

\* C2: classify_resume answers for every score, with one of three labels:
\* 'Good Fit' from 70 on, 'Potential Fit' from 50 to below 70, 'No Fit' below
\* 50; exactly 70 is 'Good Fit', a score just below 70 is 'Potential Fit',
\* exactly 50 is 'Potential Fit' and a score just below 50 is 'No Fit'.
C2_ClassifyBands ==
    classification # "none" =>
        /\ classification \in {"Good Fit", "Potential Fit", "No Fit"}
        /\ classification = "Good Fit" <=> RGe(overall_score, ToR(70))
        /\ classification = "Potential Fit" <=>
              RGe(overall_score, ToR(50)) /\ RLt(overall_score, ToR(70))
        /\ classification = "No Fit" <=> RLt(overall_score, ToR(50))
        /\ overall_score = ToR(70) => classification = "Good Fit"
        /\ overall_score = Rat(70 * ScoreGrain - 1, ScoreGrain) =>
              classification = "Potential Fit"
        /\ overall_score = ToR(50) => classification = "Potential Fit"
        /\ overall_score = Rat(50 * ScoreGrain - 1, ScoreGrain) =>
              classification = "No Fit"

\* C2, witness: the score just below 70 has been classified as 'Potential Fit'
C2_Witness ==
    /\ overall_score = Rat(70 * ScoreGrain - 1, ScoreGrain)
    /\ classification = "Potential Fit"

C8_BandedScore ==
    (band_score # NoResult /\ band_required > 0) =>
        LET r == Rat(band_matched, band_required)
            score == band_score.score
        IN  /\ band_score.error = "none"
            /\ RLt(r, Rat(4, 10)) =>
                  /\ score = RMul(r, ToR(125))
                  /\ RGe(score, ToR(0)) /\ RLt(score, ToR(50))
            /\ (RGe(r, Rat(4, 10)) /\ RLt(r, Rat(6, 10))) =>
                  /\ score = RAdd(ToR(50), RMul(RSub(r, Rat(4, 10)), ToR(100)))
                  /\ RGe(score, ToR(50)) /\ RLt(score, ToR(70))
            /\ (RGe(r, Rat(6, 10)) /\ RLt(r, Rat(8, 10))) =>
                  /\ score = RAdd(ToR(70), RMul(RSub(r, Rat(6, 10)), ToR(75)))
                  /\ RGe(score, ToR(70)) /\ RLt(score, ToR(85))
            /\ RGe(r, Rat(8, 10)) =>
                  /\ score = RAdd(ToR(85), RMul(RSub(r, Rat(8, 10)), ToR(75)))
                  /\ RGe(score, ToR(85)) /\ RLe(score, ToR(100))
            /\ 5 * band_matched = 2 * band_required => score = ToR(50)
            /\ 5 * band_matched = 3 * band_required => score = ToR(70)
            /\ 5 * band_matched = 4 * band_required => score = ToR(85)
            /\ band_matched = 0 => score = ToR(0)
            /\ band_matched = band_required => score = ToR(100)

\* C8, witness: a ratio of exactly 0.8 over more than five required skills has
\* been scaled to 85
C8_Witness ==
    /\ band_score # NoResult
    /\ band_required > 5
    /\ 5 * band_matched = 4 * band_required
    /\ band_score.score = ToR(85)

\* C9: when neither the taxonomy nor the keywords yield a required skill for
\* the job description, score_skills returns 50 with no matched and no
\* missing skill, and neither it nor the skill match rate of score_resume
\* divides by zero.
C9_NoRequiredSkills ==
    (score_result # NoResult /\ RequiredSkills(job_description) = <<>>) =>
        /\ score_result.error = "none"
        /\ score_result.skills_score = ToR(50)
        /\ score_result.matched_skills = <<>>
        /\ score_result.missing_skills = <<>>
        /\ SkillMatchRate(score_result.matched_count, score_result.missing_count).error
              = "none"

\* C9, witness: a resume that holds skills has been scored against a job
\* description of stop words only
C9_Witness ==
    /\ ScoreReturned
    /\ job_description.words = <<StopWord>>
    /\ RequiredSkills(job_description) = <<>>
    /\ extract_skills(resume_text) # <<>>
    /\ score_result.skills_score = ToR(50)

\* C10: a resume without an Experience heading line yields an empty list from
\* extract_experience of ats_components and from _extract_experience of
\* ats_engine_new, none of them raising; score_resume still returns, and the
\* experience score of either scorer is 0 for every such resume.
C10_NoExperienceHeader ==
    (resume_text # NoText /\ "EXPERIENCE" \notin RangeOf(resume_text.lines)) =>
        /\ extracted_experience # NoResult =>
              /\ extracted_experience.error = "none"
              /\ extracted_experience.entries = <<>>
        /\ score_result # NoResult =>
              /\ score_result.error = "none"
              /\ score_result.experience_score = ToR(0)
        /\ engine_result # NoResult =>
              /\ engine_result.error = "none"
              /\ engine_result.experience = <<>>
              /\ engine_result.experience_score = ToR(0)

\* C10, witness: a resume with job lines under no heading, and prose that
\* speaks of experience, has gone through both extractors and score_resume
C10_Witness ==
    /\ resume_text # NoText
    /\ "EXPERIENCE" \notin RangeOf(resume_text.lines)
    /\ {"Prose", "JobHeader", "DateLine"} \subseteq RangeOf(resume_text.lines)
    /\ extracted_experience # NoResult /\ extracted_experience.entries = <<>>
    /\ ScoreReturned /\ score_result.experience_score = ToR(0)
    /\ engine_result # NoResult /\ engine_result.experience_score = ToR(0)

\* C11: whenever extract_experience, extract_education or extract_projects
\* returns an empty list for the scored resume, the score score_resume reports
\* for that section is strictly greater than 0.
C11_EmptySectionScoresAboveZero ==
    ScoreReturned =>
        /\ extract_experience(resume_text) = <<>> =>
              RLt(ToR(0), score_result.experience_score)
        /\ extract_education(resume_text) = <<>> =>
              RLt(ToR(0), score_result.education_score)
        /\ extract_projects(resume_text) = <<>> =>
              RLt(ToR(0), score_result.projects_score)

\* q is p with some of its places struck out: the kept places, in order
RECURSIVE IsSubsequence(_, _)
IsSubsequence(q, p) ==
    IF q = <<>> THEN TRUE
    ELSE IF p = <<>> THEN FALSE
    ELSE IF Head(q) = Head(p) THEN IsSubsequence(Tail(q), Tail(p)) \/ IsSubsequence(q, Tail(p))
    ELSE IsSubsequence(q, Tail(p))

\* C15: the matched list and the missing list of find_matching_skills are
\* each a subsequence of the required list in its order, and neither changes
\* when the resume skills come in another order.
C15_RequiredOrder ==
    /\ matching # NoResult =>
          /\ IsSubsequence(matching.matched, required_skill_list)
          /\ IsSubsequence(matching.missing, required_skill_list)
          /\ Len(matching.matched) + Len(matching.missing) = Len(required_skill_list)
    /\ (matching # NoResult /\ matching_reordered # NoResult) =>
          matching_reordered = matching

\* C15, witness: for resume skills in two different orders, one of which
\* only the embedding model matches, a required list of three with matched
\* and missing skills interleaved has been split both ways
C15_Witness ==
    /\ matching # NoResult /\ matching_reordered # NoResult
    /\ Reverse(resume_skill_list) # resume_skill_list
    /\ Len(required_skill_list) = 3
    /\ Len(matching.matched) = 2 /\ Len(matching.missing) = 1
    /\ matching.missing = <<required_skill_list[2]>>
    /\ \E i \in 1..Len(matching.matched) :
          StripSkill(LowerSkill(matching.matched[i]))
              \notin {StripSkill(LowerSkill(resume_skill_list[j])) : j \in 1..Len(resume_skill_list)}

\* some resume skill equals the required skill after lower-casing and
\* trimming, or contains it or is contained in it, or is rated similar to it
QualifiesByThreeSteps(req_skill) ==
    \E i \in 1..Len(resume_skill_list) :
        LET req_clean == StripSkill(LowerSkill(req_skill))
            res_clean == StripSkill(LowerSkill(resume_skill_list[i]))
        IN  \/ req_clean = res_clean
            \/ SubstringOf(req_clean, res_clean) \/ SubstringOf(res_clean, req_clean)
            \/ Similar(req_skill, resume_skill_list[i])

\* C16: find_matching_skills of ats_components and match_skills of the
\* fallback list a required skill as matched exactly when some resume skill
\* equals it after lower-casing and trimming, or else contains it or is
\* contained in it, or else is similar to it above the threshold.
C16_ExactSubstringSimilar ==
    /\ matching # NoResult =>
          \A i \in 1..Len(required_skill_list) :
              required_skill_list[i] \in RangeOf(matching.matched)
                  <=> QualifiesByThreeSteps(required_skill_list[i])
    /\ fallback_matching # NoResult =>
          \A i \in 1..Len(required_skill_list) :
              required_skill_list[i] \in RangeOf(fallback_matching.matched)
                  <=> QualifiesByThreeSteps(required_skill_list[i])

\* C17: the closing recommendation of the verdict is 'Recommended for
\* further consideration.' exactly when classify_resume gives 'Good Fit' for
\* the score, 'Consider with additional screening.' exactly when it gives
\* 'Potential Fit' and 'Not recommended for this position.' exactly when it
\* gives 'No Fit'; the verdict lists for improvement exactly the sections
\* with a score below 60; and it names the first three matched and the first
\* three missing skills, or all of them if they are fewer.
C17_VerdictBands ==
    verdict_row # NoResult =>
        LET score_result_ == verdict_input.score_result
            verdict == verdict_row.verdict
            class == classify_resume(ToR(score_result_.overall_score))
        IN  /\ verdict.classification = class
            /\ verdict.overall_score = score_result_.overall_score
            /\ verdict.recommendation = "Recommended for further consideration."
                  <=> class = "Good Fit"
            /\ verdict.recommendation = "Consider with additional screening."
                  <=> class = "Potential Fit"
            /\ verdict.recommendation = "Not recommended for this position."
                  <=> class = "No Fit"
            /\ IsSubsequence(verdict.low_sections, Sections)
            /\ \A i \in 1..Len(Sections) :
                  Sections[i] \in RangeOf(verdict.low_sections)
                      <=> RLt(SectionScore(score_result_, Sections[i]), ToR(60))
            /\ Len(verdict.matched_skills) = MinInt(3, Len(score_result_.matched_skills))
            /\ \A i \in 1..Len(verdict.matched_skills) :
                  verdict.matched_skills[i] = score_result_.matched_skills[i]
            /\ Len(verdict.missing_skills) = MinInt(3, Len(score_result_.missing_skills))
            /\ \A i \in 1..Len(verdict.missing_skills) :
                  verdict.missing_skills[i] = score_result_.missing_skills[i]

\* C17, witness: a result with the score 70, four matched skills, two
\* missing skills and three sections below 60 has got its verdict
C17_Witness ==
    /\ verdict_row # NoResult
    /\ verdict_input.score_result.overall_score = 70
    /\ verdict_row.verdict.recommendation = "Recommended for further consideration."
    /\ Len(verdict_input.score_result.matched_skills) = 4
    /\ Len(verdict_row.verdict.matched_skills) = 3
    /\ verdict_row.verdict.matched_more
    /\ Len(verdict_row.verdict.missing_skills) = 2
    /\ Len(verdict_row.verdict.low_sections) = 3

\* an experience section of k entries, each a header, the date line d and b
\* plain bullets
FixtureLines(k, b, d) ==
    Flatten([i \in 1..k |-> <<"JobHeader", d>> \o [j \in 1..b |-> "Bullet"]])
IsFixture(k, b) ==
    \E d \in DateLines, after \in {<<>>, <<"EDUCATION", "School">>} :
        experience_text.lines = <<"Name", "EXPERIENCE">> \o FixtureLines(k, b, d) \o after

\* C18: for an experience section of k headers, each followed by one date
\* line and b bullets, both parsers return exactly k entries, each opened by
\* its header, with a company and a title and with its b bullets as
\* responsibilities (achievements in the fallback parser).
C18_FixtureEntries ==
    \A k \in 1..MaxEntries, b \in 0..MaxBullets :
        IsFixture(k, b) =>
            /\ engine_jobs # NoResult =>
                  /\ Len(engine_jobs.jobs) = k
                  /\ \A i \in 1..Len(engine_jobs.jobs) :
                        /\ engine_jobs.jobs[i].line = "JobHeader"
                        /\ engine_jobs.jobs[i].company /\ engine_jobs.jobs[i].title
                        /\ engine_jobs.jobs[i].responsibilities = [j \in 1..b |-> "Bullet"]
            /\ fallback_jobs # NoResult =>
                  /\ Len(fallback_jobs.jobs) = k
                  /\ \A i \in 1..Len(fallback_jobs.jobs) :
                        /\ fallback_jobs.jobs[i].line = "JobHeader"
                        /\ fallback_jobs.jobs[i].company /\ fallback_jobs.jobs[i].title
                        /\ fallback_jobs.jobs[i].achievements = [j \in 1..b |-> "Bullet"]

\* C19: no entry either parser returns was opened by a bullet line.
C19_BulletsOpenNoEntry ==
    /\ engine_jobs # NoResult =>
          \A i \in 1..Len(engine_jobs.jobs) : engine_jobs.jobs[i].line \notin BulletLines
    /\ fallback_jobs # NoResult =>
          \A i \in 1..Len(fallback_jobs.jobs) : fallback_jobs.jobs[i].line \notin BulletLines

\* C20: in the entries either parser returns, the duration, the dates and
\* the location were never read from a bullet line, which in these sections
\* is never the line that follows the header.
C20_BulletsSetNoDates ==
    /\ engine_jobs # NoResult =>
          \A i \in 1..Len(engine_jobs.jobs) : engine_jobs.jobs[i].duration \notin BulletLines
    /\ fallback_jobs # NoResult =>
          \A i \in 1..Len(fallback_jobs.jobs) :
              /\ fallback_jobs.jobs[i].dates \notin BulletLines
              /\ fallback_jobs.jobs[i].location \notin BulletLines

\* C14: within one request that analyze_resume answers with success, the
\* number it classified, the number stored with the resume row, the number the
\* stored verdict quotes and the number returned are one number, the truncated
\* mean of the six section scores; and the stored class, the class the verdict
\* quotes and the returned class are the class of that number.
C14_OneScoreThroughout ==
    \A r \in DOMAIN requests :
        (requests[r].pc = "done" /\ requests[r].response.status = 200) =>
            LET req == requests[r]
                returned == req.response.result
                mean == OverallScoreInt(req.score_result)
            IN  /\ req.overall_score_int = mean
                /\ req.classification = classify_resume(ToR(mean))
                /\ returned.overall_score = mean
                /\ returned.classification = req.classification
                /\ req.resume_id # 0 =>
                      /\ resumes[req.resume_id].overall_score = mean
                      /\ resumes[req.resume_id].verdict.overall_score = mean
                      /\ resumes[req.resume_id].classification = returned.classification
                      /\ resumes[req.resume_id].verdict.classification
                            = returned.classification

\* C14, witness: a request has been answered with a class above 'No Fit' and
\* its row is in the table
C14_Witness ==
    \E r \in DOMAIN requests :
        /\ requests[r].pc = "done" /\ requests[r].response.status = 200
        /\ requests[r].resume_id # 0
        /\ requests[r].response.result.classification # "No Fit"
        /\ resumes[requests[r].resume_id].verdict.overall_score
              = requests[r].response.result.overall_score

\* the weighted sum of the six section scores at line 698
InputWeighted ==
    WeightedSum(<<bonus_input.skills_score, bonus_input.header_score,
                  bonus_input.experience_score, bonus_input.projects_score,
                  bonus_input.education_score, bonus_input.format_score>>, ScorerWeights)
\* the six conditions of the bonus
SixConditions ==
    /\ bonus_input.matched_count + bonus_input.missing_count > 0
    /\ 10 * bonus_input.matched_count
          >= 7 * (bonus_input.matched_count + bonus_input.missing_count)
    /\ RGe(bonus_input.skills_score, ToR(80))
    /\ bonus_input.n_experience >= 2
    /\ bonus_input.n_projects >= 2
    /\ RGe(bonus_input.experience_score, ToR(65))
    /\ RGe(bonus_input.projects_score, ToR(60))

\* C13: score_resume adds the bonus of 8 exactly when the skill match rate is
\* at least 0.70, the skills score at least 80, there are at least two
\* experience and two project entries, the experience score is at least 65
\* and the projects score at least 60; with the bonus the overall score is
\* min(weighted sum + 8, 100), otherwise it is the weighted sum.
C13_HolisticBonus ==
    bonus_result # NoResult =>
        /\ bonus_result.error = "none"
        /\ SixConditions =>
              bonus_result.overall_score = RMin(RAdd(InputWeighted, ToR(8)), ToR(100))
        /\ ~SixConditions => bonus_result.overall_score = InputWeighted

\* C13, witness: section results that meet the six conditions at their
\* thresholds (7 of 10 skills, scores 80, 65 and 60, two entries each) got
\* the weighted sum plus 8
C13_Witness ==
    /\ bonus_result # NoResult
    /\ bonus_input.matched_count = 7 /\ bonus_input.missing_count = 3
    /\ bonus_input.skills_score = ToR(80)
    /\ bonus_input.experience_score = ToR(65)
    /\ bonus_input.projects_score = ToR(60)
    /\ bonus_input.n_experience = 2 /\ bonus_input.n_projects = 2
    /\ bonus_result.overall_score = RAdd(InputWeighted, ToR(8))
    /\ RLt(bonus_result.overall_score, ToR(100))

\* C12: the six weights of ATSScorer (its defaults), of
\* ATSResumeAnalyzer.WEIGHTS and of the fallback ATSScorer each sum to
\* exactly 1, and the weighted sum of six section scores between 0 and 100
\* lies between 0 and 100 under each of the three.
C12_WeightsSumToOne ==
    /\ SumSeq(ScorerWeights) = ToR(1)
    /\ SumSeq(EngineWeights) = ToR(1)
    /\ SumSeq(FallbackWeights) = ToR(1)
    /\ weighted_overall # NoResult =>
          /\ \A i \in 1..6 : InRange(six_scores[i])
          /\ InRange(weighted_overall.scorer)
          /\ InRange(weighted_overall.engine)
          /\ InRange(weighted_overall.fallback)

\* C12, witness: six scores of 100 have been weighed, and each scorer's
\* overall score is 100
C12_Witness ==
    /\ weighted_overall # NoResult
    /\ \A i \in 1..6 : six_scores[i] = ToR(100)
    /\ weighted_overall.scorer = ToR(100)
    /\ weighted_overall.engine = ToR(100)
    /\ weighted_overall.fallback = ToR(100)

Begun(r) == requests[r].pc # "received"
Done(r) == requests[r].pc = "done"
LaterStages == {"resume_parsing", "contact_extraction", "resume_scoring", "database_save"}

\* the part after the last dot, lower-cased, is neither pdf nor docx, or
\* there is no dot
ExtensionNotAccepted(filename) ==
    Len(filename) = 1 \/ Lower(filename[Len(filename)]) \notin {"pdf", "docx"}

RejectedAsInvalidType(r) ==
    /\ Done(r)
    /\ requests[r].response = [status |-> 400, error |-> InvalidTypeMsg, result |-> NoResult]
    /\ ~requests[r].started
    /\ requests[r].steps = <<>>
    /\ requests[r].end_calls = <<>>

\* C3, as stated: every uploaded filename whose extension is neither pdf nor
\* docx, or that has no dot, gets the invalid-file-type error, with no
\* session started and no extraction, parsing, contact extraction, scoring
\* or save.
C3_AsStated ==
    \A r \in Requests :
        (Begun(r) /\ requests[r].upload.has_file
            /\ ExtensionNotAccepted(requests[r].upload.filename))
        => RejectedAsInvalidType(r)

\* C3, amended: every non-empty uploaded filename whose extension is neither
\* pdf nor docx, or that has no dot, gets the invalid-file-type error, with
\* no session started and no extraction, parsing, contact extraction,
\* scoring or save; the empty filename gets 'No file selected' instead.
C3_InvalidTypeRejected ==
    \A r \in Requests :
        (Begun(r) /\ requests[r].upload.has_file
            /\ requests[r].upload.filename # <<"">>
            /\ ExtensionNotAccepted(requests[r].upload.filename))
        => RejectedAsInvalidType(r)

\* C3, witness: "resume.pdf.exe" has been rejected while another request
\* was let through
C3_Witness ==
    \E r, q \in Requests :
        /\ requests[r].pc = "done"
        /\ requests[r].upload.filename = <<"resume", "pdf", "exe">>
        /\ requests[r].response.error = InvalidTypeMsg
        /\ requests[q].pc = "start_session"

\* the text extracted from the upload of r is empty or blank
ExtractsBlank(r) ==
    /\ requests[r].upload.has_file
    /\ ~ExtensionNotAccepted(requests[r].upload.filename)
    /\ TextLen(requests[r].upload.job_description) > 0
    /\ extract_text_from_file(requests[r].upload).error = "none"
    /\ TextLen(extract_text_from_file(requests[r].upload).text) = 0

\* C4: when the text extracted from a supported file is empty or blank,
\* analyze_resume answers with the empty-content error and calls end_session
\* with success=False (which closes the session unless another request used
\* the same id), and parsing, contact extraction, scoring and the save never
\* run for that request.
C4_EmptyContent ==
    \A r \in Requests :
        (Begun(r) /\ ExtractsBlank(r)) =>
            /\ RangeOf(requests[r].steps) \cap LaterStages = {}
            /\ requests[r].pc \in {"start_session", "done"}
            /\ Done(r) =>
                  /\ requests[r].response =
                        [status |-> 400, error |-> EmptyContentMsg, result |-> NoResult]
                  /\ requests[r].steps = <<"text_extraction">>
                  /\ processing_tracking_available =>
                        /\ requests[r].end_calls =
                              <<[success |-> FALSE, error |-> EmptyContentMsg]>>
                        /\ (\A q \in Requests \ {r} :
                                requests[q].session_id # requests[r].session_id) =>
                              /\ requests[r].session_id \notin DOMAIN active_sessions
                              /\ \E i \in 1..Len(processing_history) :
                                    /\ processing_history[i].session_id
                                          = requests[r].session_id
                                    /\ processing_history[i].success = FALSE
                                    /\ processing_history[i].error = EmptyContentMsg

\* C4, witness: with tracking on, a PDF without text has been answered and
\* its session closed as failed
C4_Witness ==
    \E r \in Requests :
        /\ processing_tracking_available
        /\ Done(r) /\ ExtractsBlank(r)
        /\ requests[r].response.error = EmptyContentMsg
        /\ \E i \in 1..Len(processing_history) :
              /\ processing_history[i].session_id = requests[r].session_id
              /\ processing_history[i].success = FALSE
              /\ processing_history[i].stages["text_extraction"] = "ok"

\* the three outcomes of C5, "other" for the rest
Outcome(r) ==
    IF ~requests[r].upload.has_file \/ requests[r].upload.filename = <<"">>
       \/ TextLen(requests[r].upload.job_description) = 0
    THEN "other"
    ELSE IF ExtensionNotAccepted(requests[r].upload.filename) THEN "unsupported_format"
    ELSE IF extract_text_from_file(requests[r].upload).error # "none" THEN "other"
    ELSE IF TextLen(extract_text_from_file(requests[r].upload).text) = 0 THEN "empty_content"
    ELSE IF StrippedLen(extract_text_from_file(requests[r].upload).text) < 50
    THEN "too_short"
    ELSE "other"

\* C5: an unsupported format, an empty extracted text and a non-blank
\* extracted text of under 50 characters each end the request with an
\* error and no scored result, and the messages of the three differ.
C5_ThreeDistinctErrors ==
    \A r, q \in Requests :
        (Done(r) /\ Outcome(r) # "other") =>
            /\ requests[r].response.status # 200
            /\ requests[r].response.result = NoResult
            /\ requests[r].response.error # ""
            /\ (Done(q) /\ Outcome(q) \notin {"other", Outcome(r)}) =>
                  requests[q].response.error # requests[r].response.error

\* C6: two requests with the same file bytes, filename and job description
\* get the same response in every field, whatever was stored before or
\* between them.
C6_SameUploadSameResponse ==
    \A r, q \in Requests :
        (Done(r) /\ Done(q) /\ requests[r].upload = requests[q].upload) =>
            requests[r].response = requests[q].response

\* C21: every education entry either parser returns has a non-empty degree:
\* the degree line read for the institution, or 'Degree not specified' when
\* none was recognised.
C21_DegreeNeverEmpty ==
    /\ engine_education # NoResult =>
          \A i \in 1..Len(engine_education.education) :
              engine_education.education[i].degree # ""
    /\ fallback_education # NoResult =>
          \A i \in 1..Len(fallback_education.education) :
              fallback_education.education[i].degree # ""

\* the model of the key is in _models and its statistics in _model_stats
Initialized(key) == key \in DOMAIN _models /\ key \in DOMAIN _model_stats
\* no key had a second model constructed for it
ConstructedOnce == \A key \in ModelKeys : load_count[key] <= 1
\* every call that is over raised the load error or returned the one model
\* constructed for its key
SameInstance ==
    \A t \in Threads :
        callers[t].pc = "done" => callers[t].result \in {LoadError, Model(callers[t].key, 1)}
\* a step leaves the entries of every initialized key as they were
ReadOnlyOnceInitialized ==
    \A key \in ModelKeys :
        Initialized(key) =>
            /\ Initialized(key)'
            /\ _models'[key] = _models[key]
            /\ _model_stats'[key] = _model_stats[key]

\* C22: under any interleaving of requests that need a model, each model
\* key has its model constructed at most once, every caller gets that same
\* instance, and once a key is initialized no step of a request changes its
\* entry of _models or of _model_stats.
C22_LoadedOnceThenReadOnly ==
    /\ [](ConstructedOnce /\ SameInstance)
    /\ [][ReadOnlyOnceInitialized]_vars

\* no call is under way
Quiescent == \A t \in Threads : callers[t].pc \in {"idle", "done"}
\* the getter calls that returned the model
ReturnedIt(model) ==
    {t \in Threads : callers[t].pc = "done" /\ callers[t].op = "get" /\ callers[t].result = model}

\* C30: a getter that runs next to clear_model or clear_all_models returns a
\* loaded model or raises the load error, never a KeyError on _models or
\* _model_stats, and when no call is under way the usage_count of every
\* model in _models is the number of getter calls that returned that model.
C30_GettersNextToClear ==
    /\ \A t \in Threads :
          (callers[t].pc = "done" /\ callers[t].op = "get") =>
              \/ callers[t].result = LoadError
              \/ \E gen \in 1..NumThreads : callers[t].result = Model(callers[t].key, gen)
    /\ Quiescent =>
          \A key \in DOMAIN _models :
              _models[key] # NoModel =>
                  /\ key \in DOMAIN _model_stats
                  /\ _model_stats[key].usage_count = Cardinality(ReturnedIt(_models[key]))

\* the upload of r is a pdf or docx whose extracted text is not blank, with
\* a job description that is not blank
SupportedNonBlank(r) ==
    /\ requests[r].upload.has_file
    /\ ~ExtensionNotAccepted(requests[r].upload.filename)
    /\ TextLen(requests[r].upload.job_description) > 0
    /\ extract_text_from_file(requests[r].upload).error = "none"
    /\ TextLen(extract_text_from_file(requests[r].upload).text) > 0
AllStages ==
    <<"text_extraction", "resume_parsing", "contact_extraction", "resume_scoring",
      "database_save">>

\* C23: a request with a supported file whose text is not blank and a job
\* description that is not blank runs text extraction, resume parsing,
\* contact extraction, scoring and the database save in that order, and when
\* it returns it returns the success result with the scores and the
\* classification, with the ats_components classes and with the fallback
\* classes alike.
C23_StagesThenSuccess ==
    \A r \in Requests :
        (Begun(r) /\ SupportedNonBlank(r)) =>
            /\ requests[r].steps = Prefix(AllStages, Len(requests[r].steps))
            /\ Done(r) =>
                  /\ requests[r].steps = AllStages
                  /\ requests[r].response.status = 200
                  /\ requests[r].response.result # NoResult
                  /\ requests[r].response.result.success
                  /\ requests[r].response.result.classification = requests[r].classification
                  /\ requests[r].classification # "none"

\* C24: get_recent_sessions(limit) returns at most limit sessions for every
\* limit from 0 up, and they are the sessions that ended last, the newest
\* first.
C24_AtMostLimitNewestFirst ==
    recent_sessions # NoResult =>
        LET sessions == recent_sessions.sessions
            n == Len(sessions)
        IN  /\ n <= limit
            /\ n = IF Len(history_before) < limit THEN Len(history_before) ELSE limit
            /\ \A i \in 1..n :
                  sessions[i] = SessionSummary(history_before[Len(history_before) + 1 - i])

\* C25: with a connected cache, a call made while a result stored for the
\* same arguments has not expired returns that stored result and does not
\* execute the function, whatever the value; with a disconnected cache every
\* call executes the function and returns its result.
C25_StoredResultReturned ==
    last_call # NoResult =>
        /\ last_call.stored =>
              /\ ~last_call.executed
              /\ last_call.returned = last_call.stored_value
        /\ ~connected =>
              /\ last_call.executed
              /\ last_call.returned = last_call.result

\* how many times x occurs in q
Occurrences(q, x) == Len(SelectSeq(q, LAMBDA y : y = x))

\* C26: find_matching_skills puts every required skill into exactly one of
\* matched and missing, as often as it is required, so the two counts add up
\* to the number of required skills and the skill match rate of the holistic
\* bonus, matched over matched plus missing, is the match ratio of the
\* skills score, matched over required.
C26_MatchedMissingPartition ==
    matching # NoResult =>
        /\ \A x \in MatchTokens :
              /\ Occurrences(matching.matched, x) + Occurrences(matching.missing, x)
                    = Occurrences(required_skill_list, x)
              /\ Occurrences(matching.matched, x) = 0 \/ Occurrences(matching.missing, x) = 0
        /\ Len(matching.matched) + Len(matching.missing) = Len(required_skill_list)
        /\ required_skill_list # <<>> =>
              LET rate == SkillMatchRate(Len(matching.matched), Len(matching.missing)).rate
                  ratio == Rat(Len(matching.matched), Len(required_skill_list))
              IN  RLe(rate, ratio) /\ RLe(ratio, rate)

\* C26, witness: three required skills, one of them twice, went partly into
\* matched and partly into missing
C26_Witness ==
    /\ matching # NoResult
    /\ Len(required_skill_list) = 3
    /\ \E x \in MatchTokens : Occurrences(required_skill_list, x) = 2
    /\ matching.matched # <<>> /\ matching.missing # <<>>

\* the history records of the session id
RecordsOf(session_id) ==
    {i \in 1..Len(processing_history) : processing_history[i].session_id = session_id}

\* C27: a request that called start_session has, when it has returned,
\* called end_session once, with success=True on the success path only; its
\* session id is then not in active_sessions and has exactly one history
\* record, whose success is True on the success path only.
C27_SessionEndedOnce ==
    \A r \in Requests :
        (Done(r) /\ requests[r].started) =>
            /\ Len(requests[r].end_calls) = 1
            /\ requests[r].end_calls[1].success = (requests[r].response.status = 200)
            /\ requests[r].session_id \notin DOMAIN active_sessions
            /\ Cardinality(RecordsOf(requests[r].session_id)) = 1
            /\ \A i \in RecordsOf(requests[r].session_id) :
                  processing_history[i].success = (requests[r].response.status = 200)

\* r called start_session and has not returned
Running(r) == requests[r].started /\ ~Done(r)
\* the stages recorded in a session entry
RecordedStages(session) == {st \in StageNames : session.stages[st] # "none"}

\* C28: of requests that overlap, each one that started a session has an
\* entry of its own in active_sessions while it runs, holding the stages
\* that request went through and no other, and leaves a record of its own:
\* there are as many history records as started requests that returned.
C28_OwnSessionEach ==
    /\ \A r \in Requests :
          Running(r) =>
              /\ requests[r].session_id \in DOMAIN active_sessions
              /\ \A q \in Requests \ {r} :
                    Running(q) => requests[q].session_id # requests[r].session_id
              /\ RecordedStages(active_sessions[requests[r].session_id])
                    = RangeOf(requests[r].steps)
    /\ Len(processing_history)
          = Cardinality({r \in Requests : Done(r) /\ requests[r].started})

\* the float sum of the durations, in the order they were recorded
RECURSIVE FloatSum(_)
FloatSum(records) ==
    IF records = <<>> THEN 0
    ELSE FloatAdd(FloatSum(SubSeq(records, 1, Len(records) - 1)),
                  records[Len(records)].duration)

\* C29: after any sequence and interleaving of track_stage and
\* record_stage_time calls, every stage has count = success_count +
\* error_count, total_time the sum of the recorded durations, avg_time =
\* total_time / count and min_time <= avg_time <= max_time; a stage whose
\* body raised is counted once, as an error, and the exception goes on.
C29_StageStatistics ==
    /\ \A stage_name \in DOMAIN timed_stats :
          LET stats == timed_stats[stage_name]
              records == recorded[stage_name]
          IN  /\ stats.count = stats.success_count + stats.error_count
              /\ stats.count = Len(records)
              /\ stats.error_count = Len(SelectSeq(records, LAMBDA rec : ~rec.success))
              /\ stats.total_time = FloatSum(records)
              /\ stats.avg_time = FloatDiv(stats.total_time, stats.count)
              /\ stats.min_time <= stats.avg_time
              /\ stats.avg_time <= stats.max_time
    /\ \A t \in Trackers :
          stage_calls[t].pc = "done" =>
              \E i \in 1..Len(recorded[stage_calls[t].stage_name]) :
                  recorded[stage_calls[t].stage_name][i].success
                      = (stage_calls[t].outcome = "returned")

=============================================================================
